---- MODULE Spec2Model ----
(***************************************************************************)
(* Model of the prompt-extraction and manifest-persistence core of the     *)
(* image dataset tool (src/app).                                           *)
(*                                                                         *)
(* Python str values that the code inspects character by character         *)
(* (prompts, directories, file names, paths) are sequences of one-char     *)
(* strings.  Values the code only copies or compares as a whole (ids,      *)
(* names, source tags, thumbnails) are TLA+ strings.                       *)
(*                                                                         *)
(* A manifest text is the sequence of its lines, i.e. what                 *)
(* str.split("\n") makes of it; "\n".join is its inverse because          *)
(* json.dumps never emits a raw newline.                                   *)
(***************************************************************************)
EXTENDS Integers, Sequences, FiniteSets, TLC

VARIABLES
    pc,             \* position in the operation sequence being exercised
    data,           \* the List[ImageEntry] handed to save_to_jsonl_content
    dataset_dir,    \* st.session_state.dataset_dir, as the user typed it
    jsonl_content,  \* the manifest text: saved by the tool, or uploaded
    loaded,         \* the outcome of load_jsonl_data(jsonl_content)
    p,              \* normalize_prompt: the argument
    np,             \* normalize_prompt: the value returned
    np2,            \* normalize_prompt: the value returned for np
    cand_a,         \* extract_all_prompts: what extract_positive_prompt returned
    cand_b,         \* extract_all_prompts: what extract_positive_prompts_comfyui returned
    best,           \* extract_all_prompts: the value returned
    meta,           \* the opened image: img.format and img.info
    trace_w,        \* extract_positive_prompts_comfyui: outcome of the workflow source
    trace_b,        \* extract_positive_prompts_comfyui: outcome of the whole function
    fs,             \* the regular files on disk
    recursive,      \* src/app: the scanner's recursive flag
    image_data,     \* src/app: st.session_state.image_data
    processed_files,  \* src/app: st.session_state.processed_files
    hashes,         \* the calls of file_hash so far: path, bytes read, id returned
    app_scan,       \* src/app: what the last scan started from, added and returned
    clock,          \* int(time.time() * 1000) at the next upload
    ops,            \* the number of operations run
    legacy_dir,     \* legacy app: st.session_state.dataset_dir
    legacy_data,    \* legacy app: st.session_state.image_data
    legacy_processed,  \* legacy app: st.session_state.processed_files
    legacy_page,    \* legacy app: st.session_state.current_page
    legacy_uuid,    \* legacy app: the number of the next uuid4
    legacy_scan,    \* legacy app: what the last scan started from, added and returned
    legacy_removed, \* legacy app: the last Remove, its record and the file it deleted
    current_page,   \* src/app: st.session_state.current_page
    images_per_page,  \* src/app: st.session_state.images_per_page
    app_load        \* src/app: the last Load JSONL Data, what it started from and raised

manVars == <<data, dataset_dir, jsonl_content, loaded>>

normVars == <<p, np, np2>>

selVars == <<cand_a, cand_b, best>>

metaVars == <<meta, trace_w, trace_b>>

uiVars ==
    <<fs, recursive, image_data, processed_files, hashes, app_scan, clock, ops,
      legacy_dir, legacy_data, legacy_processed, legacy_page, legacy_uuid,
      legacy_scan, legacy_removed, current_page, images_per_page, app_load>>

vars == <<pc, manVars, normVars, selVars, metaVars, uiVars>>

----------------------------------------------------------------------------
(* Bounds *)

\* most records in the collection handed to save_to_jsonl_content
MaxRecords == 2

\* most lines of an uploaded manifest text
MaxLines == 3

\* longest text handed to normalize_prompt
MaxLen == 5

\* longest candidate prompt handed to the selector
MaxCandLen == 3

\* most candidates the node-graph strategy returns
MaxCands == 2

\* lines of a parameters text body
MaxTextLines == 3

\* nodes of a workflow document
MaxNodes == 2

----------------------------------------------------------------------------
(* Python values *)

\* Python None where a str that is a character sequence is expected
None == <<"<None>">>

\* Python None where a whole-value str (id, name, tag) is expected
NoneTok == "<None>"

\* a result variable before the operation has run
NotRun == <<"<not run>">>

\* all sequences over S of length at most n
StringsUpTo(S, n) == UNION {[1..k -> S] : k \in 0..n}

\* the members of a list, as a set
Range(s) == {s[i] : i \in DOMAIN s}

\* the characters str.strip() and the regex class \s treat as whitespace
\* (the two sets coincide in CPython); space and newline stand for them
Whitespace == {" ", "\n"}

Tail1(s) == SubSeq(s, 2, Len(s))

Front(s) == SubSeq(s, 1, Len(s) - 1)

RECURSIVE LStripSet(_, _)
\* str.lstrip(chars)
LStripSet(s, chars) ==
    IF s # <<>> /\ s[1] \in chars THEN LStripSet(Tail1(s), chars) ELSE s

RECURSIVE RStripSet(_, _)
\* str.rstrip(chars)
RStripSet(s, chars) ==
    IF s # <<>> /\ s[Len(s)] \in chars THEN RStripSet(Front(s), chars) ELSE s

\* str.strip() with no argument
strip(s) == RStripSet(LStripSet(s, Whitespace), Whitespace)

\* str.startswith(prefix)
startswith(s, prefix) ==
    Len(s) >= Len(prefix) /\ SubSeq(s, 1, Len(prefix)) = prefix

\* dict.get(key, default)
Get(d, key, default) == IF key \in DOMAIN d THEN d[key] ELSE default

----------------------------------------------------------------------------
(* pathlib (POSIX flavour) *)

RECURSIVE SplitSlash(_, _)
\* s.split("/"), with cur the component being read
SplitSlash(s, cur) ==
    IF s = <<>> THEN <<cur>>
    ELSE IF s[1] = "/" THEN <<cur>> \o SplitSlash(Tail1(s), <<>>)
    ELSE SplitSlash(Tail1(s), Append(cur, s[1]))

RECURSIVE JoinSlash(_)
\* "/".join(parts)
JoinSlash(parts) ==
    IF parts = <<>> THEN <<>>
    ELSE IF Len(parts) = 1 THEN parts[1]
    ELSE parts[1] \o <<"/">> \o JoinSlash(Tail1(parts))

\* the root of a path: exactly two leading slashes are kept, as POSIX allows
PathRoot(s) ==
    IF startswith(s, <<"/", "/">>) /\ ~startswith(s, <<"/", "/", "/">>) THEN <<"/", "/">>
    ELSE IF startswith(s, <<"/">>) THEN <<"/">>
    ELSE <<>>

\* the components of a path: empty and "." components are dropped
PathParts(s) == SelectSeq(SplitSlash(s, <<>>), LAMBDA c : c # <<>> /\ c # <<".">>)

\* str(Path(s))
PathStr(s) ==
    IF PathRoot(s) = <<>> /\ PathParts(s) = <<>> THEN <<".">>
    ELSE PathRoot(s) \o JoinSlash(PathParts(s))

\* Path(s).is_absolute()
is_absolute(s) == PathRoot(s) # <<>>

\* the process's working directory
Cwd == <<"/", "w">>

RECURSIVE DropDotDot(_, _)
\* ".." components resolved against the components before them
DropDotDot(parts, stack) ==
    IF parts = <<>> THEN stack
    ELSE IF parts[1] = <<".", ".">>
         THEN DropDotDot(Tail1(parts), IF stack = <<>> THEN <<>> ELSE Front(stack))
         ELSE DropDotDot(Tail1(parts), Append(stack, parts[1]))

\* str(Path(s).resolve()) where no component is a symbolic link
resolve(s) ==
    LET full == IF is_absolute(s) THEN s ELSE Cwd \o <<"/">> \o s
    IN PathRoot(full) \o JoinSlash(DropDotDot(PathParts(full), <<>>))

----------------------------------------------------------------------------
(* utils.normalize_prompt *)

\* the alphabet of the texts handed to normalize_prompt
TextChars == {"a"} \cup Whitespace

RECURSIVE re_sub_ws(_)
\* re.sub(r"\s+", " ", s): each maximal run of whitespace replaced by one space
re_sub_ws(s) ==
    IF s = <<>> THEN <<>>
    ELSE IF s[1] \in Whitespace
         THEN <<" ">> \o re_sub_ws(LStripSet(s, Whitespace))
         ELSE <<s[1]>> \o re_sub_ws(Tail1(s))

\* normalize_prompt without the strip
normalize_prompt_nostrip(s) == re_sub_ws(s)

\* utils.normalize_prompt
normalize_prompt(s) == re_sub_ws(strip(s))

----------------------------------------------------------------------------
(* models.ImageEntry *)

\* the dataclass's fields: the keyword arguments its constructor accepts
ImageEntryFields ==
    {"id", "original_name", "dataset_filename", "full_path", "prompt",
     "image_data", "modified", "source", "debug_info"}

\* the fields without a default
ImageEntryRequired == {"id", "original_name", "dataset_filename", "full_path"}

\* the defaults of the other fields
ImageEntryDefaults ==
    [prompt |-> "", image_data |-> "", modified |-> FALSE, source |-> "",
     debug_info |-> NoneTok]

\* ImageEntry(**kw): the generated __init__ raises TypeError on a keyword
\* that is no field and on a missing required field
new_ImageEntry(kw) ==
    IF DOMAIN kw \subseteq ImageEntryFields /\ ImageEntryRequired \subseteq DOMAIN kw
    THEN [raised |-> "none",
          obj |-> [f \in ImageEntryFields |->
                      IF f \in DOMAIN kw THEN kw[f] ELSE ImageEntryDefaults[f]]]
    ELSE [raised |-> "TypeError"]

\* ImageEntry.to_jsonl
to_jsonl(e) ==
    [id |-> e.id, original_name |-> e.original_name,
     dataset_filename |-> e.dataset_filename, full_path |-> e.full_path,
     prompt |-> e.prompt, modified |-> e.modified, source |-> e.source]

\* item.name = value on a dataclass instance without __slots__
set_attr(e, name, value) ==
    [k \in DOMAIN e \cup {name} |-> IF k = name THEN value ELSE e[k]]

----------------------------------------------------------------------------
(* json: a line of text is raw text, one JSON object or one JSON array *)

\* json.dumps(d) of a dict d
json_dumps(d) == [kind |-> "json", obj |-> d]

\* a line of raw text that is no JSON document unless it is blank
RawLine(text) == [kind |-> "text", text |-> text]

\* a line holding a JSON array, e.g. [1]
ListLine == [kind |-> "json_list"]

\* ln.strip() is falsy
IsBlank(ln) == ln.kind = "text" /\ strip(ln.text) = <<>>

\* json.loads(line) of a non-blank line
json_loads(ln) ==
    IF ln.kind = "json" THEN [raised |-> "none", is_dict |-> TRUE, value |-> ln.obj]
    ELSE IF ln.kind = "json_list" THEN [raised |-> "none", is_dict |-> FALSE]
    ELSE [raised |-> "JSONDecodeError"]

----------------------------------------------------------------------------
(* persistence.save_to_jsonl_content; resize_policy is left at its default, *)
(* None, as every caller does                                              *)

\* base_dir_str that never adds the "./" marker
base_dir_str_raw(dir) == IF dir # <<>> THEN dir ELSE <<".">>

\* base_dir_str, from str(dataset_dir)
base_dir_str(dir) ==
    LET s == IF dir # <<>> THEN dir ELSE <<".">>
    IN IF ~is_absolute(s) /\ ~startswith(s, <<".", "/">>)
       THEN <<".", "/">> \o s
       ELSE s

\* the rel_path computed for one item
rel_path_of(base, item) ==
    RStripSet(base, {"/"}) \o <<"/">> \o LStripSet(item.dataset_filename, {"/"})

\* the items after the call: each has had its rel_path attribute assigned
save_items(items, dir) ==
    [i \in DOMAIN items |->
        set_attr(items[i], "rel_path", rel_path_of(base_dir_str(dir), items[i]))]

\* the lines of the text returned
save_to_jsonl_content(items, dir) ==
    <<json_dumps([__manifest__ |-> [base_dir |-> base_dir_str(dir)]])>>
    \o [i \in DOMAIN items |-> json_dumps(to_jsonl(save_items(items, dir)[i]))]

----------------------------------------------------------------------------
(* persistence.load_jsonl_data *)

\* Python truthiness of an Optional[str]: None and "" are falsy
Truthy(s) == s # None /\ s # <<>>

\* one pass of the loop body; st is [raised, base_dir, resize_policy, entries]
load_line(st, ln) ==
    LET r == json_loads(ln)
    IN IF r.raised # "none" THEN [st EXCEPT !.raised = r.raised]
       ELSE IF ~r.is_dict THEN [st EXCEPT !.raised = "AttributeError"]
       ELSE IF "__manifest__" \in DOMAIN r.value
       THEN [st EXCEPT !.base_dir = Get(r.value["__manifest__"], "base_dir", <<>>),
                       !.resize_policy = Get(r.value["__manifest__"], "resize", NoneTok)]
       ELSE LET d == r.value
                original_name == Get(d, "original_name", <<>>)
                rel_path == Get(d, "rel_path", None)
                e == new_ImageEntry(
                        [id |-> Get(d, "id", NoneTok),
                         original_name |-> original_name,
                         dataset_filename |-> Get(d, "dataset_filename", original_name),
                         full_path |-> IF Truthy(rel_path) THEN resolve(rel_path) ELSE <<>>,
                         rel_path |-> rel_path,
                         prompt |-> Get(d, "prompt", ""),
                         modified |-> Get(d, "modified", FALSE),
                         source |-> Get(d, "source", "jsonl"),
                         image_data |-> "",
                         debug_info |-> NoneTok])
            IN IF e.raised # "none" THEN [st EXCEPT !.raised = e.raised]
               ELSE [st EXCEPT !.entries = Append(@, e.obj)]

RECURSIVE load_lines(_, _)
\* the loop over the non-blank lines; an exception ends it
load_lines(st, lns) ==
    IF lns = <<>> \/ st.raised # "none" THEN st
    ELSE load_lines(load_line(st, lns[1]), Tail1(lns))

\* load_jsonl_data: raised names the exception that left the function, and
\* entries, base_dir and resize_policy are the tuple returned when none did
load_jsonl_data(text) ==
    LET st == load_lines([raised |-> "none", base_dir |-> <<>>,
                          resize_policy |-> NoneTok, entries |-> <<>>],
                         SelectSeq(text, LAMBDA ln : ~IsBlank(ln)))
    IN IF st.raised = "none" THEN st
       ELSE [raised |-> st.raised, base_dir |-> <<>>,
             resize_policy |-> NoneTok, entries |-> <<>>]

----------------------------------------------------------------------------
(* The records, directories and manifest lines the operations are run on *)

\* a scanned image at the dataset root, with its thumbnail
EntryScanned ==
    [id |-> "i1", original_name |-> <<"a">>, dataset_filename |-> <<"a">>,
     full_path |-> <<"/", "w", "/", "d", "/", "a">>, prompt |-> "a red fox",
     image_data |-> "b64", modified |-> FALSE, source |-> "rescanned_dataset",
     debug_info |-> NoneTok]

\* an uploaded image in a subfolder, edited, whose file could not be read
EntryUploaded ==
    [id |-> "i2", original_name |-> <<"b">>, dataset_filename |-> <<"s", "/", "b">>,
     full_path |-> <<"/", "w", "/", "d", "/", "s", "/", "b">>, prompt |-> "edited",
     image_data |-> "", modified |-> TRUE, source |-> "uploaded_to_dataset",
     debug_info |-> "dbg"]

\* a record whose dataset_filename starts with a slash and that has no path
EntrySlash ==
    [id |-> "i3", original_name |-> <<"c">>, dataset_filename |-> <<"/", "c">>,
     full_path |-> <<>>, prompt |-> "", image_data |-> "", modified |-> FALSE,
     source |-> "jsonl", debug_info |-> NoneTok]

\* an object an earlier save gave a rel_path under another directory
EntrySavedBefore ==
    set_attr([EntryScanned EXCEPT !.id = "i4"], "rel_path", <<".", "/", "o", "/", "a">>)

SampleEntries == {EntryScanned, EntryUploaded, EntrySlash, EntrySavedBefore}

\* directories as typed: relative, "./"-marked, with a trailing slash,
\* absolute, the root, empty, ".", double-slash root, parent-relative, nested
SampleDirs ==
    { <<"d">>, <<".", "/", "d">>, <<"d", "/">>, <<"/", "d">>, <<"/">>, <<>>,
      <<".">>, <<"/", "/", "d">>, <<".", ".", "/", "d">>, <<"d", "/", "s">> }

\* the header line {"__manifest__": {"base_dir": "./ds"}}
HeaderLine == json_dumps([__manifest__ |-> [base_dir |-> <<".", "/", "d", "s">>]])

\* a record line in the documented format
RecordLine ==
    json_dumps([id |-> "i1", original_name |-> <<"a">>, dataset_filename |-> <<"a">>,
                rel_path |-> <<".", "/", "d", "s", "/", "a">>, prompt |-> "a red fox",
                modified |-> TRUE, source |-> "rescanned_dataset"])

\* a record line with neither rel_path nor source
RecordLineBare == json_dumps([id |-> "i2", dataset_filename |-> <<"b">>])

\* empty, whitespace-only, partial, foreign, header and record lines
SampleLines ==
    { RawLine(<<>>), RawLine(<<" ">>), RawLine(<<"{", "x">>), ListLine,
      HeaderLine, RecordLine, RecordLineBare }

IsHeaderLine(ln) == ln.kind = "json" /\ "__manifest__" \in DOMAIN ln.obj

IsRecordLine(ln) == ln.kind = "json" /\ "__manifest__" \notin DOMAIN ln.obj

----------------------------------------------------------------------------
(* Manifest persistence: save the session's records, load a manifest *)

ManIdle ==
    /\ data = <<>>
    /\ dataset_dir = <<>>
    /\ jsonl_content = <<>>
    /\ loaded = NotRun

NormIdle == p = <<>> /\ np = NotRun /\ np2 = NotRun

SelIdle == cand_a = None /\ cand_b = <<>> /\ best = NotRun

\* what Strategy B's outcome holds before it has run
NoOutcome == [raised |-> FALSE, texts |-> <<>>, ids |-> <<>>, processed |-> {}]

\* st.session_state.images_per_page of src/app at the start of a session
DefaultPerPage == 10

\* no scan has run
NoScan == [ran |-> FALSE]

\* no record has been removed
NoRemoval == [done |-> FALSE]

\* no manifest has been loaded
NoLoad == [ran |-> FALSE]

UiIdle ==
    /\ fs = {}
    /\ recursive = TRUE
    /\ image_data = <<>>
    /\ processed_files = {}
    /\ hashes = {}
    /\ app_scan = NoScan
    /\ clock = 1
    /\ ops = 0
    /\ legacy_dir = <<>>
    /\ legacy_data = <<>>
    /\ legacy_processed = {}
    /\ legacy_page = 0
    /\ legacy_uuid = 1
    /\ legacy_scan = NoScan
    /\ legacy_removed = NoRemoval
    /\ current_page = 0
    /\ images_per_page = DefaultPerPage
    /\ app_load = NoLoad

\* a session of src/app or a session of the legacy app, each on its own
MetaIdle ==
    /\ meta = [format |-> "PNG", info |-> <<>>]
    /\ trace_w = NoOutcome
    /\ trace_b = NoOutcome

Init ==
    /\ \/ /\ pc = "session"
          /\ data \in StringsUpTo(SampleEntries, MaxRecords)
          /\ dataset_dir \in SampleDirs
          /\ jsonl_content = <<>>
       \/ /\ pc = "uploaded"
          /\ data = <<>>
          /\ dataset_dir = <<".", "/", "d">>
          /\ jsonl_content \in StringsUpTo(SampleLines, MaxLines)
    /\ loaded = NotRun
    /\ NormIdle
    /\ SelIdle
    /\ MetaIdle
    /\ UiIdle

\* "Download JSONL": save_to_jsonl_content(entries, Path(dataset_dir))
SaveJsonl ==
    /\ pc = "session"
    /\ jsonl_content' = save_to_jsonl_content(data, PathStr(dataset_dir))
    /\ data' = save_items(data, PathStr(dataset_dir))
    /\ pc' = "saved"
    /\ UNCHANGED <<dataset_dir, loaded>>
    /\ UNCHANGED <<normVars, selVars, metaVars, uiVars>>

\* "Load JSONL Data": load_jsonl_data(jsonl_content), of a text the tool
\* saved or of an uploaded one
LoadJsonl ==
    /\ pc \in {"saved", "uploaded"}
    /\ loaded' = load_jsonl_data(jsonl_content)
    /\ pc' = IF pc = "saved" THEN "reloaded" ELSE "loaded"
    /\ UNCHANGED <<data, dataset_dir, jsonl_content>>
    /\ UNCHANGED <<normVars, selVars, metaVars, uiVars>>

Next == SaveJsonl \/ LoadJsonl

Spec == Init /\ [][Next]_vars

----------------------------------------------------------------------------
(* Manifest persistence: the properties *)

\* the fields a manifest is documented to preserve
PreservedFields == {"id", "original_name", "dataset_filename", "prompt", "modified", "source"}

\* the non-blank lines of the manifest text, in order
NonBlankLines == SelectSeq(jsonl_content, LAMBDA ln : ~IsBlank(ln))

\* the record lines of the manifest text, in order
RecordLines == SelectSeq(jsonl_content, IsRecordLine)

\* the header lines of the manifest text, in order
HeaderLines == SelectSeq(jsonl_content, IsHeaderLine)

\* every non-blank line is a header line or a record line
WellFormedText == \A i \in DOMAIN NonBlankLines :
                      IsHeaderLine(NonBlankLines[i]) \/ IsRecordLine(NonBlankLines[i])

\* a and b joined by exactly one slash
JoinedBySlash(a, b) == RStripSet(a, {"/"}) \o <<"/">> \o LStripSet(b, {"/"})

\* the base_dir of the header line the tool wrote
SavedBaseDir == jsonl_content[1].obj["__manifest__"].base_dir

\* C1: loading what save_to_jsonl_content returned gives the same number of
\* records in the same order, each with the id, original_name,
\* dataset_filename, prompt, modified and source of the record saved.
C1_RoundTrip ==
    pc = "reloaded" =>
        /\ loaded.raised = "none"
        /\ Len(loaded.entries) = Len(data)
        /\ \A i \in DOMAIN data : \A f \in PreservedFields :
               loaded.entries[i][f] = data[i][f]

\* C2: save_to_jsonl_content sets every record's rel_path to the header's
\* base_dir joined by a single slash with its dataset_filename, and that
\* rel_path is the value written in the record's manifest line.
C2_RelPathWritten ==
    pc = "saved" =>
        \A i \in DOMAIN data :
            /\ data[i].rel_path = JoinedBySlash(SavedBaseDir, data[i].dataset_filename)
            /\ "rel_path" \in DOMAIN jsonl_content[i + 1].obj
            /\ jsonl_content[i + 1].obj.rel_path = data[i].rel_path

\* C3: loading a manifest with a header line giving base_dir D and a record
\* line with dataset_filename F yields a record whose rel_path is D/F.
C3_LoadedRelPath ==
    (pc = "loaded" /\ WellFormedText /\ HeaderLines # <<>> /\ RecordLines # <<>>) =>
        /\ loaded.raised = "none"
        /\ Len(loaded.entries) = Len(RecordLines)
        /\ \A i \in DOMAIN RecordLines :
               loaded.entries[i].rel_path =
                   JoinedBySlash(loaded.base_dir, RecordLines[i].obj.dataset_filename)

\* C4: no line emitted by save_to_jsonl_content carries a record's
\* full_path, thumbnail (image_data) or debug_info.
C4_NoRuntimePathSaved ==
    pc = "saved" =>
        \A i \in DOMAIN data :
            DOMAIN jsonl_content[i + 1].obj \cap {"full_path", "image_data", "debug_info"} = {}

\* C5: load_jsonl_data never fails because of a malformed, partial or
\* foreign line: such lines are skipped, and the records returned are
\* exactly those of the record lines, in order.
C5_MalformedLinesSkipped ==
    pc = "loaded" =>
        /\ loaded.raised \notin {"JSONDecodeError", "AttributeError"}
        /\ loaded.raised = "none" =>
               /\ Len(loaded.entries) = Len(RecordLines)
               /\ \A i \in DOMAIN RecordLines :
                      loaded.entries[i].id = Get(RecordLines[i].obj, "id", NoneTok)

\* C6: loading a manifest without a header line does not abort: every
\* record line is returned as a record and base_dir is the empty string.
C6_NoHeaderLoads ==
    (pc = "loaded" /\ WellFormedText /\ HeaderLines = <<>>) =>
        /\ loaded.raised = "none"
        /\ loaded.base_dir = <<>>
        /\ Len(loaded.entries) = Len(RecordLines)

\* C7: every non-header line loaded becomes a record with an empty
\* thumbnail, no debug_info, full_path recomputed from its rel_path (empty
\* when rel_path is absent) and source "jsonl" unless the line gives one.
C7_LoadedRecordFields ==
    (pc = "loaded" /\ WellFormedText) =>
        /\ loaded.raised = "none"
        /\ Len(loaded.entries) = Len(RecordLines)
        /\ \A i \in DOMAIN RecordLines :
               LET d == RecordLines[i].obj
                   e == loaded.entries[i]
               IN /\ e.image_data = ""
                  /\ e.debug_info = NoneTok
                  /\ e.full_path = (IF "rel_path" \in DOMAIN d /\ d.rel_path # <<>>
                                    THEN resolve(d.rel_path) ELSE <<>>)
                  /\ e.source = Get(d, "source", "jsonl")

----------------------------------------------------------------------------
(* Normalizer: normalize_prompt applied to a text, then to its own result *)

InitNorm ==
    /\ pc = "norm_start"
    /\ p \in StringsUpTo(TextChars, MaxLen)
    /\ np = NotRun
    /\ np2 = NotRun
    /\ ManIdle
    /\ SelIdle
    /\ MetaIdle
    /\ UiIdle

Normalize ==
    /\ pc = "norm_start"
    /\ np' = normalize_prompt(p)
    /\ pc' = "norm_once"
    /\ UNCHANGED <<p, np2>>
    /\ UNCHANGED <<manVars, selVars, metaVars, uiVars>>

NormalizeAgain ==
    /\ pc = "norm_once"
    /\ np2' = normalize_prompt(np)
    /\ pc' = "norm_twice"
    /\ UNCHANGED <<p, np>>
    /\ UNCHANGED <<manVars, selVars, metaVars, uiVars>>

NextNorm == Normalize \/ NormalizeAgain

SpecNorm == InitNorm /\ [][NextNorm]_vars

\* no run of two or more whitespace characters
NoWsRun(s) == \A i \in 1..(Len(s) - 1) : ~(s[i] \in Whitespace /\ s[i+1] \in Whitespace)

\* no leading or trailing whitespace
NoWsEnds(s) == s = <<>> \/ (s[1] \notin Whitespace /\ s[Len(s)] \notin Whitespace)

\* C10: normalize_prompt is idempotent, and its result has no leading or
\* trailing whitespace and no run of two or more whitespace characters.
C10_NormalizeIdempotent ==
    /\ pc \in {"norm_once", "norm_twice"} => NoWsEnds(np) /\ NoWsRun(np)
    /\ pc = "norm_twice" => np2 = np

\* C10 witness: a text with leading whitespace and an inner whitespace run
\* has been normalized twice, and normalizing changed it.
C10_Witness ==
    /\ pc = "norm_twice"
    /\ p = <<" ", "a", " ", "\n", "a">>
    /\ np = <<"a", " ", "a">>
    /\ np2 = np

----------------------------------------------------------------------------
(* Prompt Selector: extractors.extract_all_prompts *)

\* the alphabet of the candidate prompts
CandChars == {"a", " "}

\* the closure add(p) of extract_all_prompts; st is [prompts, seen]
add(st, c) ==
    IF ~Truthy(c) THEN st
    ELSE LET n == normalize_prompt(c)
         IN IF n # <<>> /\ n \notin st.seen
            THEN [prompts |-> Append(st.prompts, n), seen |-> st.seen \cup {n}]
            ELSE st

RECURSIVE add_all(_, _)
\* the loop "for p in ...: add(p)"
add_all(st, cs) ==
    IF cs = <<>> THEN st ELSE add_all(add(st, cs[1]), Tail1(cs))

\* max(seq, key=len) keeping the last of the longest items
max_by_len_last(seq) ==
    seq[CHOOSE i \in DOMAIN seq :
            /\ \A j \in DOMAIN seq : Len(seq[j]) <= Len(seq[i])
            /\ \A j \in DOMAIN seq : j > i => Len(seq[j]) < Len(seq[i])]

\* Python max(seq, key=len) on a non-empty list: the first of the longest items
max_by_len(seq) ==
    seq[CHOOSE i \in DOMAIN seq :
            /\ \A j \in DOMAIN seq : Len(seq[j]) <= Len(seq[i])
            /\ \A j \in DOMAIN seq : j < i => Len(seq[j]) < Len(seq[i])]

\* extract_all_prompts, given what the two strategies returned for the file
extract_all_prompts(a, bs) ==
    LET st0 == [prompts |-> <<>>, seen |-> {}]
        st  == add_all(add(st0, a), bs)
    IN IF st.prompts = <<>> THEN <<>> ELSE max_by_len(st.prompts)

InitSel ==
    /\ pc = "sel_start"
    /\ cand_a \in {None} \cup StringsUpTo(CandChars, MaxCandLen)
    /\ cand_b \in StringsUpTo(StringsUpTo(CandChars, MaxCandLen), MaxCands)
    /\ best = NotRun
    /\ ManIdle
    /\ NormIdle
    /\ MetaIdle
    /\ UiIdle

ExtractAll ==
    /\ pc = "sel_start"
    /\ best' = extract_all_prompts(cand_a, cand_b)
    /\ pc' = "sel_done"
    /\ UNCHANGED <<cand_a, cand_b>>
    /\ UNCHANGED <<manVars, normVars, metaVars, uiVars>>

NextSel == ExtractAll

SpecSel == InitSel /\ [][NextSel]_vars

\* the candidates in the order the selector receives them
Candidates == (IF cand_a = None THEN <<>> ELSE <<cand_a>>) \o cand_b

\* the candidates, each normalized
Normalized == [i \in DOMAIN Candidates |-> normalize_prompt(Candidates[i])]

\* the position at which a normalized value is first seen
FirstSeen(v) == CHOOSE i \in DOMAIN Normalized :
                    Normalized[i] = v /\ \A j \in 1..(i-1) : Normalized[j] # v

\* the normalized values that are not blank
Survivors == {v \in Range(Normalized) : v # <<>>}

----------------------------------------------------------------------------
(* More of Python's str, for the metadata parsers *)

\* str.lower() of one character, for the capitals the sample texts use
LowerOf == ("P" :> "p") @@ ("N" :> "n") @@ ("C" :> "c") @@ ("L" :> "l")
           @@ ("I" :> "i") @@ ("T" :> "t") @@ ("E" :> "e") @@ ("U" :> "u")
           @@ ("K" :> "k") @@ ("S" :> "s")

\* str.lower()
lower(s) == [i \in DOMAIN s |-> IF s[i] \in DOMAIN LowerOf THEN LowerOf[s[i]] ELSE s[i]]

\* "sub in s" for two str values
contains(s, sub) ==
    \E i \in 1..(Len(s) - Len(sub) + 1) : SubSeq(s, i, i + Len(sub) - 1) = sub

RECURSIVE split(_, _, _)
\* s.split(sep) for a one-character sep, with cur the piece being read
split(s, sep, cur) ==
    IF s = <<>> THEN <<cur>>
    ELSE IF s[1] = sep THEN <<cur>> \o split(Tail1(s), sep, <<>>)
    ELSE split(Tail1(s), sep, Append(cur, s[1]))

RECURSIVE join(_, _)
\* sep.join(parts)
join(parts, sep) ==
    IF parts = <<>> THEN <<>>
    ELSE IF Len(parts) = 1 THEN parts[1]
    ELSE parts[1] \o sep \o join(Tail1(parts), sep)

RECURSIVE after_first(_, _)
\* s.split(sep, 1)[1] for an s that contains sep
after_first(s, sep) ==
    IF s[1] = sep THEN Tail1(s) ELSE after_first(Tail1(s), sep)

\* the literals the parsers look for
W_positive == <<"p", "o", "s", "i", "t", "i", "v", "e">>

W_negative == <<"n", "e", "g", "a", "t", "i", "v", "e">>

W_prompt == <<"p", "r", "o", "m", "p", "t">>

W_pos == <<"p", "o", "s">>

W_neg == <<"n", "e", "g">>

W_untitled == <<"u", "n", "t", "i", "t", "l", "e", "d">>

W_cliptext == <<"c", "l", "i", "p", "t", "e", "x", "t">>

W_CLIPTextEncode ==
    <<"C", "L", "I", "P", "T", "e", "x", "t", "E", "n", "c", "o", "d", "e">>

\* "positive prompt:"
W_positive_prompt_colon == W_positive \o <<" ">> \o W_prompt \o <<":">>

\* "Positive prompt"
W_Positive_prompt == <<"P">> \o Tail1(W_positive) \o <<" ">> \o W_prompt

\* "Negative prompt"
W_Negative_prompt == <<"N">> \o Tail1(W_negative) \o <<" ">> \o W_prompt

\* str(None)
W_None == <<"N", "o", "n", "e">>

----------------------------------------------------------------------------
(* extractors.parse_text_parameters *)

RECURSIVE parse_lines(_, _, _)
\* the loop over the stripped lines; the value is buf when the loop ends
parse_lines(lines, pos_started, buf) ==
    IF lines = <<>> THEN buf
    ELSE LET line == lines[1]
             lc   == lower(line)
         IN IF startswith(lc, W_positive_prompt_colon)
            THEN parse_lines(Tail1(lines), TRUE, <<strip(after_first(line, ":"))>>)
            ELSE IF pos_started
                 THEN IF ":" \in Range(line) THEN buf
                      ELSE parse_lines(Tail1(lines), TRUE,
                                       IF line # <<>> THEN Append(buf, line) ELSE buf)
                 ELSE parse_lines(Tail1(lines), FALSE, buf)

\* parse_text_parameters(parameters_data)
parse_text_parameters(parameters_data) ==
    LET raw   == split(parameters_data, "\n", <<>>)
        lines == [i \in DOMAIN raw |-> strip(raw[i])]
        buf   == parse_lines(lines, FALSE, <<>>)
    IN IF buf # <<>> THEN strip(join(buf, <<" ">>)) ELSE None

----------------------------------------------------------------------------
(* Decoded JSON values and PNG text metadata *)

\* a decoded JSON value is tagged with its Python type
Str(s) == [t |-> "str", s |-> s]

Null == [t |-> "null"]

Num(n) == [t |-> "num", n |-> n]

List(items) == [t |-> "list", items |-> items]

Obj(o) == [t |-> "obj", o |-> o]

\* the dict {} literal
EmptyDict == Obj(<<>>)

\* the decimal digits
Digits == <<"0", "1", "2", "3", "4", "5", "6", "7", "8", "9">>

\* str(v) for a str, None or a one-digit int
py_str(v) ==
    CASE v.t = "str"  -> v.s
      [] v.t = "null" -> W_None
      [] v.t = "num"  -> <<Digits[v.n + 1]>>

\* bool(v)
py_truthy(v) ==
    CASE v.t = "str"  -> v.s # <<>>
      [] v.t = "null" -> FALSE
      [] v.t = "num"  -> v.n # 0
      [] v.t = "list" -> v.items # <<>>
      [] v.t = "obj"  -> DOMAIN v.o # {}

\* "a or b"
py_or(a, b) == IF py_truthy(a) THEN a ELSE b

\* a value of img.info: a str holding free text, a str holding a JSON
\* document (kept decoded), or a value that is not a str
TextVal(text) == [kind |-> "text", text |-> text]

JsonVal(val) == [kind |-> "json", val |-> val]

OtherVal == [kind |-> "other"]

\* what dict.get returns for a missing key
Absent == [kind |-> "absent"]

\* isinstance(v, str)
is_str(v) == v.kind \in {"text", "json"}

\* img.info is the sequence of its (key, value) items, in chunk order
info_get(info, key) ==
    IF \E i \in DOMAIN info : info[i].key = key
    THEN info[CHOOSE i \in DOMAIN info : info[i].key = key].value
    ELSE Absent

\* utils.safe_json_load: json.loads(s), or None when it raises
safe_json_load(v) == IF v.kind = "json" THEN v.val ELSE Null

\* parse_text_parameters of a str value of img.info.  No line of a JSON
\* document starts with a letter p (a line starts with a structural
\* character, a quote, a digit or one of t, f, n), so none starts the prompt
parse_text_value(v) ==
    IF v.kind = "text" THEN parse_text_parameters(v.text) ELSE None

----------------------------------------------------------------------------
(* extractors.extract_positive_prompt (Strategy A) *)

\* the key list of the JSON lookup, in its order
RecognizedKeys ==
    <<"Positive prompt", "positive prompt", "Positive Prompt",
      "positive_prompt", "prompt", "Prompt">>

\* the last key of the list that the mapping holds
last_recognized(o) ==
    RecognizedKeys[CHOOSE i \in DOMAIN RecognizedKeys :
                       /\ RecognizedKeys[i] \in DOMAIN o
                       /\ \A j \in (i + 1)..Len(RecognizedKeys) :
                              RecognizedKeys[j] \notin DOMAIN o]

\* the first key of the list that the mapping holds
first_recognized(o) ==
    RecognizedKeys[CHOOSE i \in DOMAIN RecognizedKeys :
                       /\ RecognizedKeys[i] \in DOMAIN o
                       /\ \A j \in 1..(i - 1) : RecognizedKeys[j] \notin DOMAIN o]

\* "for key in [...]: if key in parsed: return str(parsed[key])", for a
\* mapping that holds one of the keys
json_lookup(o) == py_str(o[first_recognized(o)])

RECURSIVE scan_items(_)
\* "for k, v in meta.items(): ..." of the fallback: only a str with one of
\* the two literals is parsed, and a JSON document parses to None
scan_items(info) ==
    IF info = <<>> THEN None
    ELSE LET v == info[1].value
             result == IF /\ v.kind = "text"
                          /\ \/ contains(v.text, W_Positive_prompt)
                             \/ contains(v.text, W_Negative_prompt)
                       THEN parse_text_parameters(v.text)
                       ELSE None
         IN IF Truthy(result) THEN result ELSE scan_items(Tail1(info))

\* extract_positive_prompt(file_path), of the opened image m; an image
\* PIL cannot open raises, which the function turns into None
extract_positive_prompt(m) ==
    IF m.format # "PNG" THEN None
    ELSE LET params == info_get(m.info, "parameters")
             parsed == IF is_str(params) THEN safe_json_load(params) ELSE Null
         IN IF /\ parsed.t = "obj"
               /\ \E i \in DOMAIN RecognizedKeys : RecognizedKeys[i] \in DOMAIN parsed.o
            THEN json_lookup(parsed.o)
            ELSE IF is_str(params) THEN parse_text_value(params)
            ELSE scan_items(m.info)

----------------------------------------------------------------------------
(* extractors.extract_positive_prompts_comfyui (Strategy B) *)

\* the outcome of one of the two node loops: whether it raised, the texts
\* of the dicts it appended, the ids behind them, and processed_nodes
Raised == [raised |-> TRUE, texts |-> <<>>, ids |-> <<>>, processed |-> {}]

\* the first two disjuncts of is_clip, which need no properties
is_clip_type(node_type) ==
    \/ node_type = W_CLIPTextEncode
    \/ contains(lower(node_type), W_cliptext)

\* is_clip; the third disjunct is evaluated only when the first two fail
is_clip(node_type, props) ==
    \/ is_clip_type(node_type)
    \/ Get(props.o, "Node name for S&R", Null) = Str(W_CLIPTextEncode)

is_positive(title, text) ==
    \/ contains(title, W_positive)
    \/ contains(title, W_pos)
    \/ /\ title \in {<<>>, W_untitled}
       /\ strip(text) # <<>>
       /\ ~startswith(lower(text), W_negative)

\* is_negative without its two tests of the text
is_negative_title_only(title, text) ==
    \/ contains(title, W_negative)
    \/ contains(title, W_neg)

is_negative(title, text) ==
    \/ contains(title, W_negative)
    \/ contains(title, W_neg)
    \/ strip(text) = <<>>
    \/ startswith(lower(text), W_negative)

\* the skip test below reading "if processed_nodes: continue"
already_processed_any(node_id, processed) == processed # {}

\* the skip test "if node_id in processed_nodes: continue"
already_processed(node_id, processed) == node_id \in processed

\* the body of "for node in nodes" for one node; st is the outcome so far.
\* It raises for a node without .get, an unhashable id, properties
\* without .get (when looked at) and widgets_values without an item 0
workflow_node(st, node) ==
    IF node.t # "obj" THEN Raised
    ELSE LET node_id   == Get(node.o, "id", Null)
             node_type == py_str(Get(node.o, "type", Str(<<>>)))
             title     == lower(py_str(Get(node.o, "title", Str(<<>>))))
             props     == py_or(Get(node.o, "properties", EmptyDict), EmptyDict)
             widgets_values == py_or(Get(node.o, "widgets_values", List(<<>>)), List(<<>>))
         IN IF node_id.t \in {"list", "obj"} THEN Raised
            ELSE IF already_processed(node_id, st.processed) THEN st
            ELSE IF ~is_clip_type(node_type) /\ props.t # "obj" THEN Raised
            ELSE IF ~(is_clip(node_type, props) /\ py_truthy(widgets_values)) THEN st
            ELSE IF widgets_values.t \notin {"list", "str"} THEN Raised
            ELSE LET raw  == IF widgets_values.t = "list"
                             THEN widgets_values.items[1]
                             ELSE Str(<<widgets_values.s[1]>>)
                     text == IF raw.t = "str" THEN raw.s ELSE <<>>
                 IN IF /\ is_positive(title, text)
                       /\ ~is_negative(title, text)
                       /\ strip(text) # <<>>
                    THEN [raised |-> FALSE,
                          texts |-> Append(st.texts, text),
                          ids |-> Append(st.ids, node_id),
                          processed |-> st.processed \cup {node_id}]
                    ELSE st

RECURSIVE workflow_nodes(_, _)
workflow_nodes(st, nodes) ==
    IF st.raised \/ nodes = <<>> THEN st
    ELSE workflow_nodes(workflow_node(st, nodes[1]), Tail1(nodes))

\* extract_positive_from_workflow(workflow_data, processed_nodes); iterating
\* a "nodes" value that is no list raises, unless it is an empty str or dict
extract_positive_from_workflow(workflow_data, processed_nodes) ==
    LET nodes == Get(workflow_data.o, "nodes", List(<<>>))
        st0   == [raised |-> FALSE, texts |-> <<>>, ids |-> <<>>,
                  processed |-> processed_nodes]
    IN IF nodes.t = "list" THEN workflow_nodes(st0, nodes.items)
       ELSE IF nodes.t \in {"str", "obj"} /\ ~py_truthy(nodes) THEN st0
       ELSE Raised

\* the body of "for key, value in prompt_data.items()" for one item
prompt_item(st, item) ==
    LET key   == Str(item.key)
        value == item.value
    IN IF value.t # "obj" THEN st
       ELSE IF already_processed(key, st.processed) THEN st
       ELSE IF Get(value.o, "class_type", Str(<<>>)) # Str(W_CLIPTextEncode) THEN st
       ELSE LET inputs == py_or(Get(value.o, "inputs", EmptyDict), EmptyDict)
            IN IF inputs.t # "obj" THEN Raised
               ELSE LET text_content ==
                            py_or(py_or(Get(inputs.o, "text", Null),
                                        Get(inputs.o, "prompt", Null)), Str(<<>>))
                    IN IF ~py_truthy(text_content) THEN st
                       ELSE IF text_content.t # "str" THEN Raised
                       ELSE IF strip(text_content.s) = <<>> THEN st
                       ELSE IF startswith(strip(lower(text_content.s)), W_negative) THEN st
                       ELSE [raised |-> FALSE,
                             texts |-> Append(st.texts, text_content.s),
                             ids |-> Append(st.ids, key),
                             processed |-> st.processed \cup {key}]

RECURSIVE prompt_items(_, _)
prompt_items(st, items) ==
    IF st.raised \/ items = <<>> THEN st
    ELSE prompt_items(prompt_item(st, items[1]), Tail1(items))

\* extract_positive_from_prompt_data(prompt_data, processed_nodes); a
\* decoded mapping keeps its items as the sequence of (key, value) pairs
extract_positive_from_prompt_data(prompt_data, processed_nodes) ==
    prompt_items([raised |-> FALSE, texts |-> <<>>, ids |-> <<>>,
                  processed |-> processed_nodes], prompt_data.o)

\* the workflow part of extract_positive_prompts_comfyui: None when the
\* workflow value is no str or decodes to no mapping
workflow_part(m) ==
    LET workflow == info_get(m.info, "workflow")
        wf == IF is_str(workflow) THEN safe_json_load(workflow) ELSE Null
    IN IF wf.t = "obj"
       THEN extract_positive_from_workflow(wf, {})
       ELSE NoOutcome

\* the prompt part, run on the processed_nodes the workflow part left
prompt_part(m, processed_nodes) ==
    LET prompt_json == info_get(m.info, "prompt")
        pd == IF is_str(prompt_json) THEN safe_json_load(prompt_json) ELSE Null
    IN IF pd.t = "obj"
       THEN extract_positive_from_prompt_data(pd, processed_nodes)
       ELSE [raised |-> FALSE, texts |-> <<>>, ids |-> <<>>, processed |-> processed_nodes]

\* the test below reading "if True:"
prompt_always(positive_prompts) == TRUE

\* "if not positive_prompts:", the test that lets the prompt part run
prompt_needed(positive_prompts) == positive_prompts = <<>>

\* the function up to the end of the workflow source
comfyui_workflow(m) == IF m.format # "PNG" THEN NoOutcome ELSE workflow_part(m)

\* the rest of the function, given the outcome w of the workflow source;
\* an exception anywhere makes the function return []
comfyui_finish(m, w) ==
    IF m.format # "PNG" THEN NoOutcome
    ELSE IF w.raised THEN Raised
    ELSE IF ~prompt_needed(w.texts) THEN w
    ELSE LET q == prompt_part(m, w.processed)
         IN IF q.raised THEN Raised
            ELSE [raised |-> FALSE, texts |-> w.texts \o q.texts,
                  ids |-> w.ids \o q.ids, processed |-> q.processed]

\* the whole function as an outcome
comfyui_outcome(m) == comfyui_finish(m, comfyui_workflow(m))

\* extract_positive_prompts_comfyui(file_path), of the opened image m
extract_positive_prompts_comfyui(m) == comfyui_outcome(m).texts

----------------------------------------------------------------------------
(* Sample PNG metadata *)

\* lines of a parameters text body
SampleTextLines ==
    {W_Positive_prompt \o <<":", " ", "a">>, <<"b">>, <<>>,
    W_Negative_prompt \o <<":", " ", "c">>,
    <<" ">> \o W_positive_prompt_colon \o <<"d", " ">>}

NodePositive ==
    Obj([id |-> Num(1), type |-> Str(W_CLIPTextEncode), title |-> Str(<<"P",
    "o", "s", "i", "t", "i", "v", "e">>),
    widgets_values |-> List(<<Str(<<"a", " ", "c", "a", "t">>)>>)])

NodeNegative ==
    Obj([id |-> Num(2), type |-> Str(W_CLIPTextEncode), title |-> Str(<<"N",
    "e", "g", "a", "t", "i", "v", "e">>),
    widgets_values |-> List(<<Str(<<"b", "a", "d">>)>>)])

NodeUntitled ==
    Obj([id |-> Num(3), type |-> Str(W_CLIPTextEncode),
    widgets_values |-> List(<<Str(<<"a", " ", "b", "l", "u", "e", " ", "c",
    "a", "t">>)>>)])

NodePosSameId ==
    Obj([id |-> Num(1), type |-> Str(W_CLIPTextEncode), title |-> Str(<<"p",
    "o", "s">>), widgets_values |-> List(<<Str(<<"b">>)>>)])

NodeNegativeText ==
    Obj([id |-> Num(5), type |-> Str(W_CLIPTextEncode), title |-> Str(<<"P",
    "o", "s", "i", "t", "i", "v", "e">>),
    widgets_values |-> List(<<Str(<<"N", "e", "g", "a", "t", "i", "v", "e",
    ":", " ", "x">>)>>)])

NodeSampler ==
    Obj([id |-> Num(6), type |-> Str(<<"K", "S", "a", "m", "p", "l", "e",
    "r">>), widgets_values |-> List(<<Num(5)>>)])

NodeBlank ==
    Obj([id |-> Num(7), type |-> Str(W_CLIPTextEncode), title |-> Str(<<>>),
    widgets_values |-> List(<<Str(<<" ">>)>>)])

NodeNotMapping == Num(5)

NodeByProperty ==
    Obj([id |-> Num(9), type |-> Str(<<"N", "o", "t", "e">>),
    title |-> Str(<<"U">> \o Tail1(W_untitled)),
    properties |-> Obj(("Node name for S&R" :> Str(W_CLIPTextEncode))),
    widgets_values |-> List(<<Str(<<"c">>)>>)])

NodePositiveNeg ==
    Obj([id |-> Num(8), type |-> Str(W_CLIPTextEncode), title |-> Str(<<"P",
    "o", "s", "i", "t", "i", "v", "e", " ", "(", "n", "e", "g", ")">>),
    widgets_values |-> List(<<Str(<<"g">>)>>)])

\* entries of a workflow's nodes list
SampleNodes ==
    {NodePositive, NodeNegative, NodeUntitled, NodePosSameId,
    NodeNegativeText, NodeSampler, NodeBlank, NodeNotMapping,
    NodeByProperty, NodePositiveNeg}

ParamsPrompt ==
    JsonVal(Obj([prompt |-> Str(<<"a", " ", "r", "e", "d", " ", "f", "o",
    "x">>)]))

ParamsTwoKeys ==
    JsonVal(Obj([Prompt |-> Str(<<"b">>), positive_prompt |-> Str(<<"a",
    " ", " ", "c">>)]))

ParamsNull == JsonVal(Obj([prompt |-> Null]))

ParamsNoKey == JsonVal(Obj([steps |-> Num(5)]))

ParamsList == JsonVal(List(<<>>))

ParamsEmpty == JsonVal(Obj([prompt |-> Str(<<>>)]))

\* parameters values that hold a JSON document
SampleParamsJson ==
    {ParamsPrompt, ParamsTwoKeys, ParamsNull, ParamsNoKey, ParamsList,
    ParamsEmpty}

PromptOne ==
    JsonVal(Obj(<<[key |-> <<"4">>,
    value |-> Obj([class_type |-> Str(W_CLIPTextEncode),
    inputs |-> Obj([text |-> Str(<<"d", " ", "d", "o", "g">>)])])]>>))

PromptTwo ==
    JsonVal(Obj(<<[key |-> <<"4">>,
    value |-> Obj([class_type |-> Str(W_CLIPTextEncode),
    inputs |-> Obj([text |-> Str(<<"n", "e", "g", "a", "t", "i", "v", "e",
    " ", "x">>)])])], [key |-> <<"5">>,
    value |-> Obj([class_type |-> Str(W_CLIPTextEncode),
    inputs |-> Obj([prompt |-> Str(<<"e">>)])])]>>))

PromptLink ==
    JsonVal(Obj(<<[key |-> <<"1">>,
    value |-> Obj([class_type |-> Str(W_CLIPTextEncode),
    inputs |-> Obj([text |-> List(<<Str(<<"4">>), Num(0)>>)])])],
    [key |-> <<"2">>, value |-> Obj([class_type |-> Str(W_CLIPTextEncode),
    inputs |-> Obj([text |-> Str(<<"f">>)])])]>>))

PromptSampler ==
    JsonVal(Obj(<<[key |-> <<"6">>, value |-> Obj([class_type |-> Str(<<"K",
    "S", "a", "m", "p", "l", "e", "r">>), inputs |-> Obj(<<>>)])]>>))

PromptEmptyText ==
    JsonVal(Obj(<<[key |-> <<"7">>,
    value |-> Obj([class_type |-> Str(W_CLIPTextEncode),
    inputs |-> [t |-> "obj", o |-> [text |-> Str(<<>>), prompt |-> Str(<<"h">>)]]])]>>))

\* a str json.loads rejects
NotJson == TextVal(<<"n", "o", "t", " ", "j", "s", "o", "n">>)

\* a text chunk other than parameters
CommentText == TextVal(W_Positive_prompt \o <<":", " ", "z">>)

\* a workflow value whose document holds the given nodes list
WorkflowOf(nodes) == JsonVal(Obj([nodes |-> List(nodes)]))

\* a workflow document whose "nodes" member is null
WorkflowNullNodes == JsonVal(Obj([nodes |-> Null]))

\* parameters values: missing, not a str, a JSON document, a text body
ParamValues ==
    {Absent, OtherVal} \cup SampleParamsJson
    \cup {TextVal(join(ls, <<"\n">>)) : ls \in StringsUpTo(SampleTextLines, MaxTextLines)}

\* workflow values: missing, undecodable, and documents of up to MaxNodes nodes
WorkflowValues ==
    {Absent, NotJson, WorkflowNullNodes}
    \cup {WorkflowOf(ns) : ns \in StringsUpTo(SampleNodes, MaxNodes)}

\* prompt values
PromptValues ==
    {Absent, NotJson, PromptOne, PromptTwo, PromptLink, PromptSampler, PromptEmptyText}

\* img.format of the files the tool accepts
Formats == {"PNG", "JPEG"}

\* the opened image: its format and its info items in chunk order
MetaImage(format, comment, params, workflow, prompt) ==
    [format |-> format,
     info |-> SelectSeq(<<[key |-> "Comment", value |-> comment],
                          [key |-> "parameters", value |-> params],
                          [key |-> "workflow", value |-> workflow],
                          [key |-> "prompt", value |-> prompt]>>,
                        LAMBDA it : it.value # Absent)]

----------------------------------------------------------------------------
(* Extraction of one image: Strategy A, Strategy B, then the selector *)

InitMeta ==
    /\ pc = "meta_start"
    /\ \/ \E f \in Formats, c \in {Absent, CommentText}, a \in ParamValues,
             w \in {Absent, WorkflowOf(<<NodeUntitled>>)} :
               meta = MetaImage(f, c, a, w, Absent)
       \/ \E a \in {Absent, ParamsPrompt}, w \in WorkflowValues, q \in PromptValues :
               meta = MetaImage("PNG", Absent, a, w, q)
    /\ trace_w = NoOutcome
    /\ trace_b = NoOutcome
    /\ SelIdle
    /\ ManIdle
    /\ NormIdle
    /\ UiIdle

\* add(extract_positive_prompt(file_path)): Strategy A runs
StrategyA ==
    /\ pc = "meta_start"
    /\ cand_a' = extract_positive_prompt(meta)
    /\ pc' = "meta_a"
    /\ UNCHANGED <<meta, trace_w, trace_b, cand_b, best>>
    /\ UNCHANGED <<manVars, normVars, uiVars>>

\* extract_positive_prompts_comfyui(file_path), first half: the workflow
\* source
StrategyBWorkflow ==
    /\ pc = "meta_a"
    /\ trace_w' = comfyui_workflow(meta)
    /\ pc' = "meta_w"
    /\ UNCHANGED <<meta, trace_b, cand_a, cand_b, best>>
    /\ UNCHANGED <<manVars, normVars, uiVars>>

\* second half: the prompt source if it is needed, and the return
StrategyBPrompt ==
    /\ pc = "meta_w"
    /\ trace_b' = comfyui_finish(meta, trace_w)
    /\ cand_b' = trace_b'.texts
    /\ pc' = "sel_start"
    /\ UNCHANGED <<meta, trace_w, cand_a, best>>
    /\ UNCHANGED <<manVars, normVars, uiVars>>

NextMeta == StrategyA \/ StrategyBWorkflow \/ StrategyBPrompt \/ ExtractAll

SpecMeta == InitMeta /\ [][NextMeta]_vars

----------------------------------------------------------------------------
(* Properties of Strategy A *)

\* the parameters value of the image
ParamsValue == info_get(meta.info, "parameters")

\* the parameters value decodes to a mapping that holds a recognized key
HasRecognizedKey ==
    /\ ParamsValue.kind = "json"
    /\ ParamsValue.val.t = "obj"
    /\ \E k \in Range(RecognizedKeys) : k \in DOMAIN ParamsValue.val.o

\* the value under the first of the six keys, taken in the stated order
FirstListed(o) ==
    IF "Positive prompt" \in DOMAIN o THEN o["Positive prompt"]
    ELSE IF "positive prompt" \in DOMAIN o THEN o["positive prompt"]
    ELSE IF "Positive Prompt" \in DOMAIN o THEN o["Positive Prompt"]
    ELSE IF "positive_prompt" \in DOMAIN o THEN o["positive_prompt"]
    ELSE IF "prompt" \in DOMAIN o THEN o["prompt"]
    ELSE o["Prompt"]

\* the text of that value
ListedText == py_str(FirstListed(ParamsValue.val.o))

\* no Strategy B candidate is longer, once normalized, than the text s
NoneLonger(s) ==
    \A i \in DOMAIN cand_b : Len(normalize_prompt(cand_b[i])) <= Len(normalize_prompt(s))

\* C11 as stated: for a PNG whose parameters value decodes to a mapping with
\* a recognized key, Strategy A returns the value of the first such key in
\* list order, and the extraction of the image yields that value normalized.
C11_JsonBody ==
    (pc = "sel_done" /\ meta.format = "PNG" /\ HasRecognizedKey) =>
        /\ cand_a = ListedText
        /\ best = normalize_prompt(ListedText)

\* C11 amended: Strategy A returns str() of the value of the first
\* recognized key in list order; the extraction yields it normalized unless
\* Strategy B found a candidate that is longer once normalized, and then it
\* yields one of those.
C11_JsonBodyUnlessLonger ==
    (pc = "sel_done" /\ meta.format = "PNG" /\ HasRecognizedKey) =>
        /\ cand_a = ListedText
        /\ NoneLonger(ListedText) => best = normalize_prompt(ListedText)
        /\ ~NoneLonger(ListedText) =>
               /\ Len(best) > Len(normalize_prompt(ListedText))
               /\ \E i \in DOMAIN cand_b : best = normalize_prompt(cand_b[i])

\* parameters {"prompt": "a red fox"} alone has yielded "a red fox"
C11_Witness ==
    /\ pc = "sel_done"
    /\ meta = MetaImage("PNG", Absent, ParamsPrompt, Absent, Absent)
    /\ cand_a = <<"a", " ", "r", "e", "d", " ", "f", "o", "x">>
    /\ best = <<"a", " ", "r", "e", "d", " ", "f", "o", "x">>

\* the stripped lines of a parameters text body
TextLines ==
    LET raw == split(ParamsValue.text, "\n", <<>>)
    IN [i \in DOMAIN raw |-> strip(raw[i])]

\* a line that opens the prompt
StartsPrompt(line) == startswith(lower(line), W_positive_prompt_colon)

\* a line that ends the prompt: empty, or holding a colon
Terminates(line) == line = <<>> \/ ":" \in Range(line)

\* the index of the first terminating line after line i, or one past the end
StopAfter(i) ==
    IF \E j \in (i + 1)..Len(TextLines) : Terminates(TextLines[j])
    THEN CHOOSE j \in (i + 1)..Len(TextLines) :
             /\ Terminates(TextLines[j])
             /\ \A k \in (i + 1)..(j - 1) : ~Terminates(TextLines[k])
    ELSE Len(TextLines) + 1

\* the remainder of line i and the continuation lines before StopAfter(i)
Fragments(i) ==
    <<strip(after_first(TextLines[i], ":"))>> \o SubSeq(TextLines, i + 1, StopAfter(i) - 1)

\* C12: for a parameters text with one line starting with "positive
\* prompt:" (any case), Strategy A returns the remainder of that line and the
\* continuation lines before the next line that is empty or holds a colon,
\* joined by single spaces, and nothing from that line or a later one.
C12_TextBody ==
    (pc # "meta_start" /\ meta.format = "PNG" /\ ParamsValue.kind = "text") =>
        \A i \in DOMAIN TextLines :
            (/\ StartsPrompt(TextLines[i])
             /\ \A j \in DOMAIN TextLines : j # i => ~StartsPrompt(TextLines[j]))
            => cand_a = strip(join(Fragments(i), <<" ">>))

----------------------------------------------------------------------------
(* Properties of Strategy B *)

\* the entries of the nodes list of the image's workflow document
WorkflowNodes ==
    LET v == info_get(meta.info, "workflow")
    IN IF /\ v.kind = "json"
          /\ v.val.t = "obj"
          /\ "nodes" \in DOMAIN v.val.o
          /\ v.val.o["nodes"].t = "list"
       THEN v.val.o["nodes"].items
       ELSE <<>>

\* the items of the image's prompt document
PromptItems ==
    LET v == info_get(meta.info, "prompt")
    IN IF v.kind = "json" /\ v.val.t = "obj" THEN v.val.o ELSE <<>>

NodeId(n) == Get(n.o, "id", Null)

NodeTitle(n) == lower(py_str(Get(n.o, "title", Str(<<>>))))

\* the text of a node: its first widget value when that is a str
NodeText(n) ==
    LET w == Get(n.o, "widgets_values", List(<<>>))
    IN IF w.t = "list" /\ w.items # <<>> /\ w.items[1].t = "str"
       THEN w.items[1].s ELSE <<>>

\* an encoder node: a mapping of type CLIPTextEncode, of a type holding
\* "cliptext", or named CLIPTextEncode in its properties
IsEncoder(n) ==
    /\ n.t = "obj"
    /\ LET type == py_str(Get(n.o, "type", Str(<<>>)))
           prop == Get(n.o, "properties", EmptyDict)
       IN \/ type = W_CLIPTextEncode
          \/ contains(lower(type), W_cliptext)
          \/ prop.t = "obj" /\ Get(prop.o, "Node name for S&R", Null) = Str(W_CLIPTextEncode)

\* the three ways a node is negative
NegativeNode(n) ==
    \/ contains(NodeTitle(n), W_negative)
    \/ contains(NodeTitle(n), W_neg)
    \/ strip(NodeText(n)) = <<>>
    \/ startswith(lower(NodeText(n)), W_negative)

\* an encoder node with non-blank text and a title containing "positive"
PositiveTitled(n) ==
    IsEncoder(n) /\ strip(NodeText(n)) # <<>> /\ contains(NodeTitle(n), W_positive)

\* an encoder node that is positive (by title, or untitled) and not negative
Qualifies(n) ==
    /\ IsEncoder(n)
    /\ ~NegativeNode(n)
    /\ \/ contains(NodeTitle(n), W_pos)
       \/ NodeTitle(n) \in {<<>>, W_untitled}

\* the outcome tr holds a candidate that came from node n
Contributed(tr, n) ==
    \E k \in DOMAIN tr.ids : tr.ids[k] = NodeId(n) /\ tr.texts[k] = NodeText(n)

\* the workflow source has run on a PNG
WorkflowDone == pc \in {"meta_w", "sel_start", "sel_done"} /\ meta.format = "PNG"

\* a negative encoder node contributes nothing
NegativeNeverContributes ==
    \A k \in DOMAIN WorkflowNodes :
        (IsEncoder(WorkflowNodes[k]) /\ NegativeNode(WorkflowNodes[k]))
        => ~Contributed(trace_w, WorkflowNodes[k])

\* exactly one node is PositiveTitled, and it is node k
OnlyPositiveTitled(k) ==
    /\ PositiveTitled(WorkflowNodes[k])
    /\ \A j \in DOMAIN WorkflowNodes : j # k => ~PositiveTitled(WorkflowNodes[j])

\* an untitled encoder node with widgets_values ["a blue cat"], on its own
UntitledBlueCat ==
    (/\ Len(WorkflowNodes) = 1
     /\ IsEncoder(WorkflowNodes[1])
     /\ "title" \notin DOMAIN WorkflowNodes[1].o
     /\ NodeText(WorkflowNodes[1]) = <<"a", " ", "b", "l", "u", "e", " ", "c", "a", "t">>)
    => trace_w.texts = <<<<"a", " ", "b", "l", "u", "e", " ", "c", "a", "t">>>>

WithoutWorkflow(m) ==
    [format |-> m.format, info |-> SelectSeq(m.info, LAMBDA it : it.key # "workflow")]

\* the texts the nodes of the workflow document hold
WorkflowTexts ==
    {NodeText(WorkflowNodes[k]) : k \in {j \in DOMAIN WorkflowNodes : WorkflowNodes[j].t = "obj"}}

\* Strategy B has returned for a PNG
ComfyDone == pc \in {"sel_start", "sel_done"} /\ meta.format = "PNG"

NoDupIds(tr) ==
    \A i, j \in DOMAIN tr.ids : i # j => tr.ids[i] # tr.ids[j]

\* an item of the prompt document that qualifies
QualifiesItem(it) ==
    /\ it.value.t = "obj"
    /\ Get(it.value.o, "class_type", Str(<<>>)) = Str(W_CLIPTextEncode)
    /\ LET inputs == Get(it.value.o, "inputs", EmptyDict)
       IN /\ inputs.t = "obj"
          /\ \E f \in {"text", "prompt"} :
                 /\ f \in DOMAIN inputs.o
                 /\ inputs.o[f].t = "str"
                 /\ strip(inputs.o[f].s) # <<>>
                 /\ ~startswith(strip(lower(inputs.o[f].s)), W_negative)

----------------------------------------------------------------------------
(* The file system under the working directory, and os.path *)

\* str.endswith(suffix)
endswith(s, suffix) ==
    Len(s) >= Len(suffix) /\ SubSeq(s, Len(s) - Len(suffix) + 1, Len(s)) = suffix

\* utils.is_image_file
is_image_file(name) ==
    \E ext \in {<<".", "p", "n", "g">>, <<".", "j", "p", "g">>, <<".", "j", "p", "e", "g">>} : endswith(lower(name), ext)

\* a regular file: its resolved path, its bytes, whether PIL can open it and
\* the prompt extract_all_prompts reads from it
File(path, bytes, image, prompt) ==
    [path |-> path, bytes |-> bytes, image |-> image, prompt |-> prompt]

\* the directories that exist from the start
BaseDirs == {<<"/", "w">>, <<"/", "w", "/", "d">>, <<"/", "w", "/", "d", "/", "s">>, <<"/", "w", "/", "e">>}

\* Path.name, os.path.basename
path_name(s) == LET parts == PathParts(s) IN IF parts = <<>> THEN <<>> ELSE parts[Len(parts)]

\* the path without its last component
path_parent(s) ==
    LET parts == PathParts(s)
    IN PathRoot(s) \o JoinSlash(IF parts = <<>> THEN <<>> ELSE Front(parts))

\* other in path.parents: path lies strictly below other
is_below(path, other) ==
    /\ PathRoot(path) = PathRoot(other)
    /\ Len(PathParts(path)) > Len(PathParts(other))
    /\ SubSeq(PathParts(path), 1, Len(PathParts(other))) = PathParts(other)

\* path.relative_to(other), for resolved paths: the components after other's
relative_to(path, other) ==
    IF path = other THEN [raised |-> FALSE, value |-> <<".">>]
    ELSE IF is_below(path, other)
         THEN [raised |-> FALSE,
               value |-> JoinSlash(SubSeq(PathParts(path), Len(PathParts(other)) + 1,
                                          Len(PathParts(path))))]
         ELSE [raised |-> TRUE]

\* Path.is_file(), os.path.exists of a file's path
is_file(fsys, path) == \E f \in fsys : f.path = resolve(path)

\* Path.is_dir(): a directory holds a file or was there from the start
is_dir(fsys, path) ==
    \/ resolve(path) \in BaseDirs
    \/ \E f \in fsys : is_below(f.path, resolve(path))

\* the file at a path that is_file
file_at(fsys, path) == CHOOSE f \in fsys : f.path = resolve(path)

\* open(path, "wb").write(bytes): the file is created or replaced
write_file(fsys, path, f) ==
    {g \in fsys : g.path # resolve(path)} \cup {[f EXCEPT !.path = resolve(path)]}

\* os.remove(path)
remove_file(fsys, path) == {g \in fsys : g.path # resolve(path)}

\* os.path.join(a, b)
os_path_join(a, b) ==
    IF startswith(b, <<"/">>) THEN b
    ELSE IF a = <<>> \/ endswith(a, <<"/">>) THEN a \o b
    ELSE a \o <<"/">> \o b

\* a listing of a directory: the order is the file system's, one fixed
\* order is taken
RECURSIVE sorted_paths(_)
sorted_paths(S) ==
    IF S = {} THEN <<>>
    ELSE LET first == CHOOSE x \in S : \A y \in S : Len(x) <= Len(y)
         IN <<first>> \o sorted_paths(S \ {first})

----------------------------------------------------------------------------
(* utils.file_hash *)

\* the number of bytes file_hash reads at a time
ChunkSize == 8192

RECURSIVE read_chunks(_, _)
\* the loop of file_hash: h.update(chunk) for each chunk until f.read
\* returns b""; h is the byte sequence fed to the hash so far
read_chunks(rest, h) ==
    LET chunk == SubSeq(rest, 1, IF Len(rest) < ChunkSize THEN Len(rest) ELSE ChunkSize)
    IN IF chunk = <<>> THEN h
       ELSE read_chunks(SubSeq(rest, Len(chunk) + 1, Len(rest)), h \o chunk)

\* hashlib.sha256: h.hexdigest() after the updates; SHA-256 is taken to be
\* free of collisions, so a digest is identified with the bytes hashed
hexdigest(msg) == [sha256 |-> msg]

\* a hash that also depends on the path of the file
file_hash_named(fsys, path) ==
    [sha256 |-> read_chunks(file_at(fsys, path).bytes, <<>>), name |-> resolve(path)]

\* utils.file_hash(path)
file_hash(fsys, path) == hexdigest(read_chunks(file_at(fsys, path).bytes, <<>>))

----------------------------------------------------------------------------
(* app.py: the dataset scanner and the uploader of the Streamlit session *)

\* io_utils.cached_thumbnail, dataset_ui.image_to_base64: "" when PIL cannot
\* open the file
cached_thumbnail(fsys, path) == IF file_at(fsys, path).image THEN "thumb" ELSE ""

\* cached_extract_prompts(path) or ""
cached_extract_prompts(fsys, path) == file_at(fsys, path).prompt

\* app._make_rel_path
make_rel_path(dataset_dir_str, dataset_filename) ==
    LET base == RStripSet(dataset_dir_str, {"/"})
        rel == LStripSet(dataset_filename, {"/"})
        rel_path == IF base # <<>> THEN base \o <<"/">> \o rel ELSE rel
    IN IF base # <<>> /\ ~is_absolute(base) /\ ~startswith(rel_path, <<".", "/">>)
       THEN <<".", "/">> \o LStripSet(rel_path, {".", "/"})
       ELSE rel_path

\* app._safe_iter_images: the image files under ds_path, as resolved paths
safe_iter_images(fsys, ds_path, rec) ==
    sorted_paths({f.path : f \in {g \in fsys :
        /\ is_below(g.path, resolve(ds_path))
        /\ rec \/ path_parent(g.path) = resolve(ds_path)
        /\ is_image_file(path_name(g.path))}})

\* the keys by which a scan takes a file to be represented already
seen_by_scan(st, dataset_filename, full_path) ==
    dataset_filename \in st.fns \/ full_path \in st.fps

\* the body of the scanner's loop for one path: st holds the collection, the
\* two dedupe sets, the count of new records, the hashes computed and the
\* count of warnings
scan_one(st, fsys, ds_str, full_path) ==
    LET rel == relative_to(full_path, resolve(ds_str))
        dataset_filename == IF rel.raised THEN path_name(full_path) ELSE rel.value
        entry == new_ImageEntry(
            [id |-> file_hash(fsys, full_path),
             original_name |-> path_name(full_path),
             dataset_filename |-> dataset_filename,
             full_path |-> full_path,
             rel_path |-> make_rel_path(ds_str, dataset_filename),
             image_data |-> cached_thumbnail(fsys, full_path),
             prompt |-> cached_extract_prompts(fsys, full_path),
             modified |-> FALSE,
             source |-> "rescanned_dataset",
             debug_info |-> NoneTok])
        hashed == [st EXCEPT !.hashes = @ \cup
                      {[path |-> full_path, bytes |-> file_at(fsys, full_path).bytes,
                        id |-> file_hash(fsys, full_path)]}]
    IN IF seen_by_scan(st, dataset_filename, full_path) THEN st
       ELSE IF entry.raised # "none"
            THEN [hashed EXCEPT !.warnings = @ + 1]
            ELSE [hashed EXCEPT !.image_data = Append(@, entry.obj),
                                !.fns = @ \cup {dataset_filename},
                                !.fps = @ \cup {full_path},
                                !.new_images = @ + 1]

RECURSIVE scan_loop_abort(_, _, _, _)
\* a loop that the first failing file ends
scan_loop_abort(st, fsys, ds_str, paths) ==
    IF paths = <<>> \/ st.warnings > 0 THEN st
    ELSE scan_loop_abort(scan_one(st, fsys, ds_str, paths[1]), fsys, ds_str, Tail1(paths))

RECURSIVE scan_loop(_, _, _, _)
\* "for idx, p in enumerate(image_paths)": a file that raises is warned
\* about and the loop goes on
scan_loop(st, fsys, ds_str, paths) ==
    IF paths = <<>> THEN st
    ELSE scan_loop(scan_one(st, fsys, ds_str, paths[1]), fsys, ds_str, Tail1(paths))

\* {d.get(key) for d in image_data if d.get(key)}
truthy_values(coll, key) ==
    {coll[i][key] : i \in {j \in DOMAIN coll : coll[j][key] # <<>>}}

\* app.rescan_dataset_directory(recursive): the state after the call; the
\* count returned is new_images
app_rescan(coll, seen_hashes, fsys, ds_str, rec) ==
    LET st0 == [image_data |-> coll,
                fns |-> truthy_values(coll, "dataset_filename"),
                fps |-> truthy_values(coll, "full_path"),
                new_images |-> 0, hashes |-> seen_hashes, warnings |-> 0]
    IN IF ds_str = <<>> \/ ~is_dir(fsys, ds_str) THEN st0
       ELSE scan_loop(st0, fsys, ds_str, safe_iter_images(fsys, ds_str, rec))

\* f"{ts}_{name_part}{ext}"
unique_filename(ts, name) == <<Digits[ts + 1]>> \o <<"_">> \o name

\* an uploaded file: its name, its bytes (up.size is their number), whether
\* PIL can open it, the prompt inside it
Upload(name, bytes, image, prompt) ==
    [name |-> name, bytes |-> bytes, image |-> image, prompt |-> prompt]

\* f"{up.name}_{up.size}"
upload_file_id(up) == [name |-> up.name, size |-> Len(up.bytes)]

\* app.process_uploaded_files for one file of type image/*, at clock ts
app_upload(st, ds_str, up, ts) ==
    LET dataset_path == os_path_join(ds_str, unique_filename(ts, up.name))
        fsys == write_file(st.fs, dataset_path, File(<<>>, up.bytes, up.image, up.prompt))
        fp == resolve(dataset_path)
        entry == new_ImageEntry(
            [id |-> file_hash(fsys, fp),
             original_name |-> up.name,
             dataset_filename |-> unique_filename(ts, up.name),
             full_path |-> fp,
             rel_path |-> make_rel_path(ds_str, unique_filename(ts, up.name)),
             image_data |-> cached_thumbnail(fsys, fp),
             prompt |-> cached_extract_prompts(fsys, fp),
             modified |-> FALSE,
             source |-> "uploaded_to_dataset",
             debug_info |-> NoneTok])
        hashed == [st EXCEPT !.fs = fsys,
                             !.hashes = @ \cup {[path |-> fp, bytes |-> up.bytes,
                                                 id |-> file_hash(fsys, fp)]}]
    IN IF upload_file_id(up) \in st.processed_files THEN st
       ELSE IF entry.raised # "none"
            THEN [hashed EXCEPT !.errors = @ + 1]
            ELSE [hashed EXCEPT !.image_data = Append(@, entry.obj),
                                !.processed_files = @ \cup {upload_file_id(up)},
                                !.new_images = @ + 1]

----------------------------------------------------------------------------
(* dataset_ui.py: the scanner, the uploader and Remove of the legacy app *)

\* os.path.abspath(path), where no component is a symbolic link
abspath(path) == resolve(path)

\* os.listdir(dir): the names of the files in the directory; the names of
\* its sub-directories are left out, none ends in an image suffix
listdir(fsys, dir) ==
    sorted_paths({path_name(f.path) : f \in {g \in fsys : path_parent(g.path) = resolve(dir)}})

\* the legacy scanner's test that never finds a file represented
legacy_seen_never(coll, filename, full_path) == FALSE

\* the legacy scanner's test that a file is represented already; the two
\* sets are built before the loop
legacy_seen(coll, filename, full_path) ==
    \/ filename \in truthy_values(coll, "dataset_filename")
    \/ full_path \in truthy_values(coll, "full_path")

\* the body of the legacy scanner's loop for one name of the listing: st
\* is the collection, the count of new records and the next uuid
legacy_scan_one(st, coll0, fsys, dir, filename) ==
    LET full_path == os_path_join(dir, filename)
    IN IF ~is_image_file(filename) THEN st
       ELSE IF legacy_seen(coll0, filename, full_path) THEN st
       ELSE IF cached_thumbnail(fsys, full_path) = "" THEN st
       ELSE [st EXCEPT
               !.image_data = Append(@,
                   [id |-> [uuid |-> st.uuid],
                    original_name |-> filename,
                    dataset_filename |-> filename,
                    full_path |-> abspath(full_path),
                    image_data |-> cached_thumbnail(fsys, full_path),
                    prompt |-> cached_extract_prompts(fsys, full_path),
                    modified |-> FALSE,
                    source |-> "rescanned_dataset"]),
               !.new_images_count = @ + 1,
               !.uuid = @ + 1]

RECURSIVE legacy_scan_loop(_, _, _, _, _)
legacy_scan_loop(st, coll0, fsys, dir, names) ==
    IF names = <<>> THEN st
    ELSE legacy_scan_loop(legacy_scan_one(st, coll0, fsys, dir, names[1]),
                          coll0, fsys, dir, Tail1(names))

\* dataset_ui.rescan_dataset_directory(), called where the directory exists
legacy_rescan(coll, uuid, fsys, dir) ==
    legacy_scan_loop([image_data |-> coll, new_images_count |-> 0, uuid |-> uuid],
                     coll, fsys, dir, listdir(fsys, dir))

\* dataset_ui.process_uploaded_files for one file of type image/*, at clock ts
legacy_upload(st, dir, up, ts) ==
    LET dataset_path == os_path_join(dir, unique_filename(ts, up.name))
        fsys == write_file(st.fs, dataset_path, File(<<>>, up.bytes, up.image, up.prompt))
    IN IF upload_file_id(up) \in st.processed_files THEN st
       ELSE IF cached_thumbnail(fsys, dataset_path) = "" THEN [st EXCEPT !.fs = fsys]
       ELSE [st EXCEPT
               !.fs = fsys,
               !.image_data = Append(@,
                   [id |-> [uuid |-> st.uuid],
                    original_name |-> up.name,
                    dataset_filename |-> unique_filename(ts, up.name),
                    full_path |-> abspath(dataset_path),
                    image_data |-> cached_thumbnail(fsys, dataset_path),
                    prompt |-> cached_extract_prompts(fsys, dataset_path),
                    modified |-> FALSE,
                    source |-> "uploaded_to_dataset"]),
               !.processed_files = @ \cup {upload_file_id(up)},
               !.uuid = @ + 1]

\* the path the legacy Remove deletes for a record, or None
legacy_remove_target(fsys, dir, img_data) ==
    IF img_data.source = "uploaded_to_dataset"
       /\ is_file(fsys, os_path_join(dir, img_data.dataset_filename))
    THEN resolve(os_path_join(dir, img_data.dataset_filename))
    ELSE None

\* the clamp of current_page after a removal
clamp_page(coll, page, per_page) ==
    IF coll # <<>>
    THEN LET max_page == (Len(coll) - 1) \div per_page
         IN IF page > max_page THEN max_page ELSE page
    ELSE 0

----------------------------------------------------------------------------
(* Sessions of the two apps over one file system *)

\* how many operations a session runs
MaxOps == 3

\* the last value of the millisecond clock
MaxClock == 2

\* st.session_state.images_per_page of the legacy app
ImagesPerPage == 10

FileA == File(<<"/", "w", "/", "d", "/", "a", ".", "p", "n", "g">>, <<1, 2>>, TRUE, <<"a", " ", "c", "a", "t">>)
FileB == File(<<"/", "w", "/", "d", "/", "b", ".", "j", "p", "g">>, <<1, 2>>, TRUE, <<"a", " ", "c", "a", "t">>)
FileSub == File(<<"/", "w", "/", "d", "/", "s", "/", "c", ".", "p", "n", "g">>, <<3>>, TRUE, <<>>)
FileText == File(<<"/", "w", "/", "d", "/", "n", ".", "t", "x", "t">>, <<1, 2>>, FALSE, <<>>)
FileBroken == File(<<"/", "w", "/", "d", "/", "z", ".", "p", "n", "g">>, <<0>>, FALSE, <<>>)
FileOther == File(<<"/", "w", "/", "e", "/", "1", "_", "a", ".", "p", "n", "g">>, <<3>>, TRUE, <<"a", " ", "d", "o", "g">>)

\* the file systems a session starts on
SampleFileSystems ==
    { {FileOther},
      {FileA, FileB, FileSub},
      {FileA, FileB, FileSub, FileText, FileBroken, FileOther} }

\* the dataset directories typed into a session of src/app
AppDirs == {<<"d">>, <<"/", "w", "/", "d">>}

\* the dataset directories typed into a session of the legacy app
LegacyDirs == {<<"d">>, <<"e">>}

\* the files a user uploads
SampleUploads == {Upload(<<"a", ".", "p", "n", "g">>, <<1, 2>>, TRUE, <<"a", " ", "c", "a", "t">>),
                  Upload(<<"z", ".", "p", "n", "g">>, <<0>>, FALSE, <<>>)}

InitUi ==
    /\ \/ /\ pc = "app"
          /\ dataset_dir \in AppDirs
          /\ recursive \in BOOLEAN
          /\ legacy_dir = <<>>
       \/ /\ pc = "legacy"
          /\ dataset_dir = <<>>
          /\ recursive = TRUE
          /\ legacy_dir \in LegacyDirs
    /\ fs \in SampleFileSystems
    /\ data = <<>> /\ jsonl_content = <<>> /\ loaded = NotRun
    /\ image_data = <<>>
    /\ processed_files = {}
    /\ hashes = {}
    /\ app_scan = NoScan
    /\ clock = 1
    /\ ops = 0
    /\ legacy_data = <<>>
    /\ legacy_processed = {}
    /\ legacy_page = 0
    /\ legacy_uuid = 1
    /\ legacy_scan = NoScan
    /\ legacy_removed = NoRemoval
    /\ current_page = 0
    /\ images_per_page = DefaultPerPage
    /\ app_load = NoLoad
    /\ NormIdle /\ SelIdle /\ MetaIdle

\* what a scan leaves for the next one to compare with: the directory, the
\* flag, the files and the collection it began and ended on, the warnings it
\* gave; repeat tells that it began where the scan before it had ended
ScanLog(repeat, dir, rec, fsys, before, coll, warnings, returned) ==
    [ran |-> TRUE, repeat |-> repeat, dir |-> dir, recursive |-> rec, fs |-> fsys,
     before |-> before, coll |-> coll, added |-> Len(coll) - Len(before),
     warnings |-> warnings, returned |-> returned]

\* the scan starts on the directory, flag, files and collection that the
\* scan logged last ended on
Repeats(log, dir, rec, fsys, coll) ==
    /\ log.ran
    /\ log.dir = dir /\ log.recursive = rec /\ log.fs = fsys /\ log.coll = coll

\* the button "Rescan Dataset Directory" of src/app
AppRescan ==
    /\ pc = "app" /\ ops < MaxOps
    /\ is_dir(fs, dataset_dir)
    /\ \E st \in {app_rescan(image_data, hashes, fs, dataset_dir, recursive)} :
          /\ image_data' = st.image_data
          /\ hashes' = st.hashes
          /\ app_scan' = ScanLog(Repeats(app_scan, dataset_dir, recursive, fs, image_data),
                                 dataset_dir, recursive, fs, image_data, st.image_data,
                                 st.warnings, st.new_images)
    /\ ops' = ops + 1
    /\ UNCHANGED <<fs, recursive, processed_files, clock>>
    /\ UNCHANGED <<legacy_dir, legacy_data, legacy_processed, legacy_page, legacy_uuid,
                   legacy_scan, legacy_removed>>
    /\ UNCHANGED <<current_page, images_per_page, app_load>>
    /\ UNCHANGED <<pc, manVars, normVars, selVars, metaVars>>

\* a file dropped on the uploader of src/app
AppUpload ==
    /\ pc = "app" /\ ops < MaxOps /\ clock <= MaxClock
    /\ \E up \in SampleUploads :
         \E st \in {app_upload([fs |-> fs, hashes |-> hashes, image_data |-> image_data,
                               processed_files |-> processed_files, errors |-> 0,
                               new_images |-> 0],
                              dataset_dir, up, clock)} :
            /\ fs' = st.fs
            /\ hashes' = st.hashes
            /\ image_data' = st.image_data
            /\ processed_files' = st.processed_files
    /\ clock' = clock + 1
    /\ ops' = ops + 1
    /\ UNCHANGED <<recursive, app_scan>>
    /\ UNCHANGED <<legacy_dir, legacy_data, legacy_processed, legacy_page, legacy_uuid,
                   legacy_scan, legacy_removed>>
    /\ UNCHANGED <<current_page, images_per_page, app_load>>
    /\ UNCHANGED <<pc, manVars, normVars, selVars, metaVars>>

\* the button "Rescan Dataset Directory" of the legacy app
LegacyRescan ==
    /\ pc = "legacy" /\ ops < MaxOps
    /\ is_dir(fs, legacy_dir)
    /\ \E st \in {legacy_rescan(legacy_data, legacy_uuid, fs, legacy_dir)} :
          /\ legacy_data' = st.image_data
          /\ legacy_uuid' = st.uuid
          /\ legacy_scan' = ScanLog(Repeats(legacy_scan, legacy_dir, TRUE, fs, legacy_data),
                                    legacy_dir, TRUE, fs, legacy_data, st.image_data,
                                    0, st.new_images_count)
    /\ ops' = ops + 1
    /\ UNCHANGED <<fs, legacy_dir, legacy_processed, legacy_page, legacy_removed, clock>>
    /\ UNCHANGED <<recursive, image_data, processed_files, hashes, app_scan>>
    /\ UNCHANGED <<current_page, images_per_page, app_load>>
    /\ UNCHANGED <<pc, manVars, normVars, selVars, metaVars>>

\* a file dropped on the uploader of the legacy app
LegacyUpload ==
    /\ pc = "legacy" /\ ops < MaxOps /\ clock <= MaxClock
    /\ \E up \in SampleUploads :
         \E st \in {legacy_upload([fs |-> fs, image_data |-> legacy_data,
                                  processed_files |-> legacy_processed,
                                  uuid |-> legacy_uuid],
                                 legacy_dir, up, clock)} :
            /\ fs' = st.fs
            /\ legacy_data' = st.image_data
            /\ legacy_processed' = st.processed_files
            /\ legacy_uuid' = st.uuid
    /\ clock' = clock + 1
    /\ ops' = ops + 1
    /\ UNCHANGED <<legacy_dir, legacy_page, legacy_scan, legacy_removed>>
    /\ UNCHANGED <<recursive, image_data, processed_files, hashes, app_scan>>
    /\ UNCHANGED <<current_page, images_per_page, app_load>>
    /\ UNCHANGED <<pc, manVars, normVars, selVars, metaVars>>

\* the text input "Dataset Directory" of the legacy app
LegacySetDir ==
    /\ pc = "legacy" /\ ops < MaxOps
    /\ \E d \in LegacyDirs :
         /\ d # legacy_dir
         /\ legacy_dir' = d
    /\ ops' = ops + 1
    /\ UNCHANGED <<fs, legacy_data, legacy_processed, legacy_page, legacy_uuid,
                   legacy_scan, legacy_removed, clock>>
    /\ UNCHANGED <<recursive, image_data, processed_files, hashes, app_scan>>
    /\ UNCHANGED <<current_page, images_per_page, app_load>>
    /\ UNCHANGED <<pc, manVars, normVars, selVars, metaVars>>

\* the button "Remove" on a row of the legacy app
LegacyRemove ==
    /\ pc = "legacy" /\ ops < MaxOps
    /\ \E i \in DOMAIN legacy_data :
         LET img_data == legacy_data[i]
             target == legacy_remove_target(fs, legacy_dir, img_data)
             kept == SelectSeq(legacy_data, LAMBDA img : img.id # img_data.id)
         IN /\ fs' = IF target = None THEN fs ELSE remove_file(fs, target)
            /\ legacy_data' = kept
            /\ legacy_page' = clamp_page(kept, legacy_page, ImagesPerPage)
            /\ legacy_removed' = [done |-> TRUE, record |-> img_data,
                                  root |-> legacy_dir, deleted |-> target]
    /\ ops' = ops + 1
    /\ UNCHANGED <<legacy_dir, legacy_processed, legacy_uuid, legacy_scan, clock>>
    /\ UNCHANGED <<recursive, image_data, processed_files, hashes, app_scan>>
    /\ UNCHANGED <<current_page, images_per_page, app_load>>
    /\ UNCHANGED <<pc, manVars, normVars, selVars, metaVars>>

\* the choices of the select box "Images per page"
PerPageChoices == {5, 10, 15, 20}

\* current_page after a change of the page size
page_reset(page) == 0

\* the select box "Images per page" of src/app, set to another size
AppPageSize ==
    /\ pc = "app" /\ ops < MaxOps
    /\ \E new_per_page \in PerPageChoices :
         /\ new_per_page # images_per_page
         /\ images_per_page' = new_per_page
         /\ current_page' = page_reset(current_page)
    /\ ops' = ops + 1
    /\ UNCHANGED <<fs, recursive, image_data, processed_files, hashes, app_scan, clock,
                   app_load>>
    /\ UNCHANGED <<legacy_dir, legacy_data, legacy_processed, legacy_page, legacy_uuid,
                   legacy_scan, legacy_removed>>
    /\ UNCHANGED <<pc, manVars, normVars, selVars, metaVars>>

\* the manifests a user uploads to Load JSONL Data
SampleManifests ==
    {<<>>, <<HeaderLine, RecordLine>>, <<RecordLine, RecordLineBare>>}

\* how many values load_jsonl_data returns
LoadReturns == 3

\* "loaded_data, base_dir = load_jsonl_data(jsonl_content)": the exception
\* that leaves the statement, "none" when it assigns
load_statement(text) ==
    IF load_jsonl_data(text).raised # "none" THEN load_jsonl_data(text).raised
    ELSE IF LoadReturns # 2 THEN "ValueError"
    ELSE "none"

RECURSIVE merge_loaded(_, _, _)
\* "for item in loaded_data: if item.id not in existing_ids: ...append":
\* existing_ids is built once, before the loop; the thumbnail is loaded from
\* full_path when there is one
merge_loaded(coll, existing_ids, loaded_data) ==
    IF loaded_data = <<>> THEN coll
    ELSE merge_loaded(IF loaded_data[1].id \in existing_ids THEN coll
                      ELSE Append(coll, loaded_data[1]),
                      existing_ids, Tail1(loaded_data))

\* the button "Load JSONL Data" of src/app, on an uploaded manifest
AppLoad ==
    /\ pc = "app" /\ ops < MaxOps
    /\ \E text \in SampleManifests :
       \E merged \in {IF load_statement(text) # "none"
                          \/ load_jsonl_data(text).entries = <<>>
                       THEN image_data
                       ELSE merge_loaded(image_data,
                                         {image_data[i].id : i \in DOMAIN image_data},
                                         load_jsonl_data(text).entries)} :
         /\ image_data' = merged
         /\ app_load' = [ran |-> TRUE, before |-> image_data, text |-> text,
                         raised |-> load_statement(text), after |-> merged]
    /\ ops' = ops + 1
    /\ UNCHANGED <<fs, recursive, processed_files, hashes, app_scan, clock,
                   current_page, images_per_page>>
    /\ UNCHANGED <<legacy_dir, legacy_data, legacy_processed, legacy_page, legacy_uuid,
                   legacy_scan, legacy_removed>>
    /\ UNCHANGED <<pc, manVars, normVars, selVars, metaVars>>

NextUi ==
    \/ AppRescan
    \/ AppUpload
    \/ AppPageSize
    \/ AppLoad
    \/ LegacyRescan
    \/ LegacyUpload
    \/ LegacySetDir
    \/ LegacyRemove

SpecUi == InitUi /\ [][NextUi]_vars

----------------------------------------------------------------------------
(* Properties of the sessions *)

\* a scan that began on the directory, flag, files and collection the scan
\* before it had ended on
SecondScan(log) == log.ran /\ log.repeat

\* C15: Scanner idempotence: a scan run right after a scan, over the same
\* unchanged directory with the same recursive flag and on the collection the
\* first scan left, adds zero records and returns 0, in src/app and in the
\* legacy app.
C15_ScanIdempotent ==
    /\ SecondScan(app_scan) => (app_scan.added = 0 /\ app_scan.returned = 0)
    /\ SecondScan(legacy_scan) => (legacy_scan.added = 0 /\ legacy_scan.returned = 0)

\* a second scan of a directory whose images the first scan had added
C15_Witness ==
    /\ SecondScan(legacy_scan)
    /\ \E i \in DOMAIN legacy_data : legacy_data[i].source = "rescanned_dataset"
    /\ legacy_scan.added = 0

\* the record's own file lies inside the dataset root of the removal
InsideRoot(rm) == is_below(resolve(rm.record.full_path), resolve(rm.root))

\* C18: Removing a record deletes a file only when the record's source is
\* uploaded_to_dataset and the file's resolved path lies inside the resolved
\* dataset root; for a record of another source, or whose path lies outside
\* the root, removal drops the record and deletes no file.
C18_RemoveDeletesOwnUploadOnly ==
    legacy_removed.done =>
        /\ legacy_removed.deleted # None =>
              /\ legacy_removed.record.source = "uploaded_to_dataset"
              /\ is_below(legacy_removed.deleted, resolve(legacy_removed.root))
        /\ (legacy_removed.record.source # "uploaded_to_dataset"
              \/ ~InsideRoot(legacy_removed)) =>
              legacy_removed.deleted = None
        /\ \A i \in DOMAIN legacy_data : legacy_data[i].id # legacy_removed.record.id

\* C19: file_hash is a function of the file's bytes only: two calls that read
\* the same bytes return the same id, whether they hash one unmodified file
\* twice or two files of different names or paths.
C19_HashOfBytesOnly ==
    \A h1 \in hashes : \A h2 \in hashes : h1.bytes = h2.bytes => h1.id = h2.id

\* two files of equal content under different names have been hashed, each of
\* them twice, by a scan and by the scan after it
C19_Witness ==
    /\ SecondScan(app_scan)
    /\ \E h1 \in hashes : \E h2 \in hashes :
         /\ h1.path # h2.path
         /\ path_name(h1.path) # path_name(h2.path)
         /\ h1.bytes = h2.bytes
         /\ h1.id = h2.id


----------------------------------------------------------------------------
(* More properties of Strategy B *)

\* the text of an item of the prompt document as the claim reads it:
\* inputs.text when the key is there, inputs.prompt only when it is not
ItemText(it) ==
    LET inputs == Get(it.value.o, "inputs", EmptyDict)
    IN IF inputs.t # "obj" THEN Null
       ELSE IF "text" \in DOMAIN inputs.o THEN inputs.o["text"]
       ELSE IF "prompt" \in DOMAIN inputs.o THEN inputs.o["prompt"]
       ELSE Str(<<>>)

\* an item that contributes, as the claim reads it
ItemContributes(it) ==
    /\ it.value.t = "obj"
    /\ Get(it.value.o, "class_type", Str(<<>>)) = Str(W_CLIPTextEncode)
    /\ ItemText(it).t = "str"
    /\ strip(ItemText(it).s) # <<>>
    /\ ~startswith(strip(lower(ItemText(it).s)), W_negative)

\* the prompt source has answered: a PNG whose workflow source gave nothing,
\* and no node made the function raise
PromptSourceDone == ComfyDone /\ trace_w.texts = <<>> /\ ~trace_w.raised /\ ~trace_b.raised

\* C21: in the prompt source an item contributes exactly when its class_type
\* is CLIPTextEncode and its text is non-blank and does not start with
\* "negative", the text being inputs.text, and inputs.prompt only if
\* inputs.text is absent; the candidates come in the order of the items.
C21_PromptSource ==
    PromptSourceDone =>
        LET chosen == SelectSeq(PromptItems, ItemContributes)
        IN /\ trace_b.ids = [k \in DOMAIN chosen |-> Str(chosen[k].key)]
           /\ trace_b.texts = [k \in DOMAIN chosen |-> ItemText(chosen[k]).s]

\* C29: a node of unexpected shape contributes nothing itself, does not
\* discard the candidates of the other nodes, and does not keep the prompt
\* source from being tried: every qualifying node of the source that answers,
\* the first of its id, has its text in the result.
C29_NodeIsolation ==
    ComfyDone =>
        /\ \A k \in DOMAIN WorkflowNodes :
               (/\ Qualifies(WorkflowNodes[k])
                /\ \A j \in 1..(k - 1) :
                       Qualifies(WorkflowNodes[j])
                       => NodeId(WorkflowNodes[j]) # NodeId(WorkflowNodes[k]))
               => NodeText(WorkflowNodes[k]) \in Range(cand_b)
        /\ (\A k \in DOMAIN WorkflowNodes : ~Qualifies(WorkflowNodes[k])) =>
               \A k \in DOMAIN PromptItems :
                   QualifiesItem(PromptItems[k]) =>
                       \E f \in {"text", "prompt"} :
                           /\ f \in DOMAIN PromptItems[k].value.o["inputs"].o
                           /\ PromptItems[k].value.o["inputs"].o[f].t = "str"
                           /\ PromptItems[k].value.o["inputs"].o[f].s \in Range(cand_b)


----------------------------------------------------------------------------
(* More properties of Strategy A *)

\* Strategy A has returned for a PNG
StrategyADone == pc # "meta_start" /\ meta.format = "PNG"

\* the parameters value yields a candidate: a recognized key of its JSON
\* mapping, or a prompt found by the line logic
ParamsYield ==
    \/ HasRecognizedKey
    \/ is_str(ParamsValue) /\ parse_text_value(ParamsValue) # None

\* what the line logic finds in the metadata value at position i, for a
\* value that contains one of the two literals
ScanResult(i) ==
    LET v == meta.info[i].value
    IN IF /\ v.kind = "text"
          /\ contains(v.text, W_Positive_prompt) \/ contains(v.text, W_Negative_prompt)
       THEN parse_text_parameters(v.text)
       ELSE None

\* C22: when the parameters value yields no candidate (no parameters key, or
\* a value in which neither the JSON lookup nor the line logic finds a
\* prompt), the candidate is the first non-empty result of the line logic over
\* the metadata values containing "Positive prompt" or "Negative prompt", and
\* there is none if no value gives one.
C22_FallbackScan ==
    (StrategyADone /\ ~ParamsYield) =>
        /\ \A i \in DOMAIN meta.info :
               (/\ Truthy(ScanResult(i))
                /\ \A j \in 1..(i - 1) : ~Truthy(ScanResult(j)))
               => cand_a = ScanResult(i)
        /\ (\A i \in DOMAIN meta.info : ~Truthy(ScanResult(i))) => cand_a = None

\* the index of the first line that opens the prompt
FirstStart == CHOOSE i \in DOMAIN TextLines :
                  /\ StartsPrompt(TextLines[i])
                  /\ \A j \in 1..(i - 1) : ~StartsPrompt(TextLines[j])

\* the index of the first line holding a colon after line i, or one past the
\* end
ColonAfter(i) ==
    IF \E j \in (i + 1)..Len(TextLines) : ":" \in Range(TextLines[j])
    THEN CHOOSE j \in (i + 1)..Len(TextLines) :
             /\ ":" \in Range(TextLines[j])
             /\ \A k \in (i + 1)..(j - 1) : ":" \notin Range(TextLines[k])
    ELSE Len(TextLines) + 1

\* the fragments accumulated from the first opening line on: its remainder
\* and the non-empty lines before the next line holding a colon
FirstFragments ==
    <<strip(after_first(TextLines[FirstStart], ":"))>>
    \o SelectSeq(SubSeq(TextLines, FirstStart + 1, ColonAfter(FirstStart) - 1),
                 LAMBDA line : line # <<>>)

\* C23: the candidate of a parameters text comes from the first line that
\* starts with "positive prompt:": no later line, a later line starting with
\* "positive prompt:" included, replaces or discards the fragments accumulated
\* from it.
C23_FirstPromptLine ==
    (/\ StrategyADone
     /\ ParamsValue.kind = "text"
     /\ \E i \in DOMAIN TextLines : StartsPrompt(TextLines[i]))
    => cand_a = strip(join(FirstFragments, <<" ">>))


----------------------------------------------------------------------------
(* Properties of the sessions of src/app *)

\* the image files the logged scan listed
ScanFiles(log) == safe_iter_images(log.fs, log.dir, log.recursive)

\* the dataset_filename the scanner gives a file: its path relative to the
\* root
RelativeName(log, path) == relative_to(path, resolve(log.dir)).value

\* a listed file that no record stood for when the scan began
Unrepresented(log, path) ==
    \A i \in DOMAIN log.before :
        /\ log.before[i].dataset_filename # RelativeName(log, path)
        /\ log.before[i].full_path # path

\* the records the scan appended
Appended(log) == SubSeq(log.coll, Len(log.before) + 1, Len(log.coll))

\* C24: for every image file under the root that is not yet represented the
\* scan appends exactly one record, with source rescanned_dataset,
\* dataset_filename the path relative to the root and id the content hash;
\* the count returned is the number of records appended.
C24_ScanAddsEachFile ==
    app_scan.ran =>
        /\ \A k \in DOMAIN ScanFiles(app_scan) :
               Unrepresented(app_scan, ScanFiles(app_scan)[k]) =>
                   Cardinality({i \in DOMAIN Appended(app_scan) :
                       /\ Appended(app_scan)[i].full_path = ScanFiles(app_scan)[k]
                       /\ Appended(app_scan)[i].source = "rescanned_dataset"
                       /\ Appended(app_scan)[i].dataset_filename
                              = RelativeName(app_scan, ScanFiles(app_scan)[k])
                       /\ Appended(app_scan)[i].id
                              = file_hash(app_scan.fs, ScanFiles(app_scan)[k])}) = 1
        /\ app_scan.returned = app_scan.added

\* the listed files that were not represented when the scan began
ToProcess(log) ==
    {k \in DOMAIN ScanFiles(log) : Unrepresented(log, ScanFiles(log)[k])}

\* C25: a file whose processing raises gets a warning and no record, the
\* records already in the collection stay as they were, and every remaining
\* file is still processed: each file to process has been hashed and has
\* ended in a record or in a warning.
C25_FailureIsolation ==
    app_scan.ran =>
        /\ SubSeq(app_scan.coll, 1, Len(app_scan.before)) = app_scan.before
        /\ app_scan.warnings + app_scan.added = Cardinality(ToProcess(app_scan))
        /\ \A k \in ToProcess(app_scan) :
               /\ \E h \in hashes : h.path = ScanFiles(app_scan)[k]
               /\ Cardinality({i \in DOMAIN Appended(app_scan) :
                      Appended(app_scan)[i].full_path = ScanFiles(app_scan)[k]}) <= 1
        /\ app_scan.warnings > 0 => app_scan.added < Cardinality(ToProcess(app_scan))

\* a scan in which two files raised and the third was still processed
C25_Witness ==
    /\ app_scan.ran
    /\ app_scan.warnings >= 2
    /\ Len(ScanFiles(app_scan)) >= 3
    /\ \A k \in DOMAIN ScanFiles(app_scan) : \E h \in hashes : h.path = ScanFiles(app_scan)[k]

\* the record lines of the manifest loaded last
LoadedRecordLines == SelectSeq(app_load.text, IsRecordLine)

\* those of them whose id no record of the collection had
NewRecordLines ==
    SelectSeq(LoadedRecordLines,
              LAMBDA ln : \A i \in DOMAIN app_load.before :
                              app_load.before[i].id # Get(ln.obj, "id", NoneTok))

\* C30: merging a loaded manifest appends, in manifest order, exactly the
\* loaded records whose id is not yet in the collection, and leaves every
\* record that was in the collection unchanged and in its position.
C30_MergeAppendsNew ==
    app_load.ran =>
        /\ Len(app_load.after) = Len(app_load.before) + Len(NewRecordLines)
        /\ SubSeq(app_load.after, 1, Len(app_load.before)) = app_load.before
        /\ \A k \in DOMAIN NewRecordLines :
               app_load.after[Len(app_load.before) + k].id
                   = Get(NewRecordLines[k].obj, "id", NoneTok)

====
